---- MODULE Spec2Model ----
(***************************************************************************)
(* A model of libsyntax/fold.rs: the Folder trait (one operation per AST   *)
(* node kind, each with a default that calls the free function noop_fold_* *)
(* of the same name) and the noop_fold_* functions themselves.             *)
(*                                                                         *)
(* A folder is `&mut self` in the source.  Here it is a record `f` that is *)
(* threaded through every operation: its mode fields say which trait       *)
(* methods the folder overrides, `log` is the sequence of trait-method     *)
(* calls made so far, `next` the state of a folder that hands out fresh    *)
(* node ids, and `failed` the message of the panic that ended the pass     *)
(* ("" while it is running).  Every operation returns                      *)
(* [v |-> its result, f |-> the folder afterwards].                        *)
(*                                                                         *)
(* Option<T> is a sequence of length 0 or 1, Vec<T> and SmallVector<T> are *)
(* sequences, P<T>, Box<T> and Rc<T> are transparent, Spanned<T> is a      *)
(* record [node, span].  An enum value is a record whose field k names the *)
(* variant.  Ident and Name are strings, NodeId and Span are integers, and *)
(* a Spanned<Ident> is a record [leaf, span].  A field name has one type   *)
(* throughout: where the source uses one name for an Option and for a      *)
(* plain value, the Option's field is prefixed opt_.                       *)
(***************************************************************************)
EXTENDS Integers, Sequences, FiniteSets, TLC

VARIABLES
  pc,      \* "ready" before an operation is applied, then "done" or "failed"
  op,      \* the entry point that was applied ("" while ready)
  fld,     \* the folder: before the call while ready, after it otherwise
  input,   \* the node handed to the entry point (<<>> while ready)
  out,     \* <<result>> of a completed call, <<>> otherwise
  par      \* two passes that run interleaved (<<>> when there is one pass)

vars == <<pc, op, fld, input, out, par>>

RECURSIVE fold_meta_items(_, _), fold_meta_item(_, _), fold_view_path(_, _)
RECURSIVE fold_foreign_item(_, _), fold_item(_, _), fold_item_simple(_, _)
RECURSIVE fold_struct_field(_, _), fold_item_kind(_, _), fold_trait_item(_, _)
RECURSIVE fold_impl_item(_, _), fold_fn_decl(_, _), fold_block(_, _)
RECURSIVE fold_stmt(_, _), fold_arm(_, _), fold_pat(_, _), fold_decl(_, _)
RECURSIVE fold_expr(_, _), fold_opt_expr(_, _), fold_exprs(_, _), fold_ty(_, _)
RECURSIVE fold_ty_binding(_, _), fold_mod(_, _), fold_foreign_mod(_, _)
RECURSIVE fold_variant(_, _), fold_ident(_, _), fold_usize(_, _), fold_path(_, _)
RECURSIVE fold_path_parameters(_, _), fold_angle_bracketed_parameter_data(_, _)
RECURSIVE fold_parenthesized_parameter_data(_, _), fold_local(_, _), fold_mac(_, _)
RECURSIVE fold_explicit_self(_, _), fold_explicit_self_kind(_, _)
RECURSIVE fold_lifetime(_, _), fold_lifetime_def(_, _), fold_attribute(_, _)
RECURSIVE fold_arg(_, _), fold_generics(_, _), fold_trait_ref(_, _)
RECURSIVE fold_poly_trait_ref(_, _), fold_variant_data(_, _), fold_lifetimes(_, _)
RECURSIVE fold_lifetime_defs(_, _), fold_ty_param(_, _), fold_ty_params(_, _)
RECURSIVE fold_tt(_, _), fold_tts(_, _), fold_token(_, _), fold_interpolated(_, _)
RECURSIVE fold_opt_lifetime(_, _), fold_bounds(_, _), fold_ty_param_bound(_, _)
RECURSIVE fold_mt(_, _), fold_field(_, _), fold_where_clause(_, _)
RECURSIVE fold_where_predicate(_, _), fold_crate(_, _)
RECURSIVE MoveMap(_, _, _), MoveFlatMap(_, _, _), Invoke(_, _, _)

(***************************************************************************)
(* Plumbing shared by every operation.                                     *)
(***************************************************************************)

\* Every operation returns its result v paired with the folder f after it.

\* Entering a trait method or a hook: the call is logged.
Call(name, arg, f) ==
  IF f.failed # "" THEN f ELSE [f EXCEPT !.log = Append(@, [op |-> name, arg |-> arg])]

\* panic!/assert!/expect_one: the first failure ends the pass.
Panic(f, msg) == IF f.failed # "" THEN f ELSE [f EXCEPT !.failed = msg]

\* Vec::move_map and Option::map with a closure that calls the folder:
\* the elements are visited in order, each exactly once.
MoveMap(Op(_, _), xs, f) ==
  IF xs = <<>> THEN [v |-> <<>>, f |-> f]
  ELSE LET a == Op(xs[1], f)
       IN  IF Len(xs) = 1 THEN [v |-> <<a.v>>, f |-> a.f]
           ELSE LET b == Op(xs[2], a.f)
                    c == MoveMap(Op, SubSeq(xs, 3, Len(xs)), b.f)
                IN  [v |-> <<a.v, b.v>> \o c.v, f |-> c.f]

\* Vec::move_flat_map and Option::and_then: the closure returns 0..n results
\* per element, and the results are concatenated in input order.
MoveFlatMap(Op(_, _), xs, f) ==
  IF xs = <<>> THEN [v |-> <<>>, f |-> f]
  ELSE IF Len(xs) = 1 THEN Op(xs[1], f)
  ELSE LET a == Op(xs[1], f)
           b == Op(xs[2], a.f)
           c == MoveFlatMap(Op, SubSeq(xs, 3, Len(xs)), b.f)
       IN  [v |-> a.v \o b.v \o c.v, f |-> c.f]

\* SmallVector::expect_one(msg): the only element, or a panic.
expect_one(r, msg) ==
  IF Len(r.v) = 1 THEN [v |-> r.v[1], f |-> r.f]
  ELSE [v |-> IF r.v = <<>> THEN <<>> ELSE r.v[1], f |-> Panic(r.f, msg)]

(***************************************************************************)
(* The two universal rewrite hooks.  A custom folder may override them:    *)
(* new_id "fresh" hands out next, next+1, ...; new_span "mark" moves every *)
(* span it is given by SpanMark, so that a rewritten span is recognisable. *)
(***************************************************************************)
SpanMark == 100

new_id(i, f) == Invoke("new_id", i, f)

new_span(sp, f) == Invoke("new_span", sp, f)

(***************************************************************************)
(* Leaves, paths, lifetimes.                                               *)
(***************************************************************************)
noop_fold_ident(i, f) == [v |-> i, f |-> f]

noop_fold_usize(i, f) == [v |-> i, f |-> f]

fold_path_segment(seg, f) ==
  LET r1 == fold_ident(seg.identifier, f)
      r2 == fold_path_parameters(seg.parameters, r1.f)
  IN  [v |-> [identifier |-> r1.v, parameters |-> r2.v], f |-> r2.f]

noop_fold_path(p, f) ==
  LET r1 == MoveMap(fold_path_segment, p.segments, f)
      r2 == new_span(p.span, r1.f)
  IN  [v |-> [global |-> p.global, segments |-> r1.v, span |-> r2.v], f |-> r2.f]

noop_fold_path_parameters(pp, f) ==
  IF pp.k = "AngleBracketed"
  THEN LET r == fold_angle_bracketed_parameter_data(pp.data, f)
       IN  [v |-> [k |-> "AngleBracketed", data |-> r.v], f |-> r.f]
  ELSE LET r == fold_parenthesized_parameter_data(pp.data, f)
       IN  [v |-> [k |-> "Parenthesized", data |-> r.v], f |-> r.f]

noop_fold_angle_bracketed_parameter_data(data, f) ==
  LET r1 == fold_lifetimes(data.lifetimes, f)
      r2 == MoveMap(fold_ty, data.types, r1.f)
      r3 == MoveMap(fold_ty_binding, data.bindings, r2.f)
  IN  [v |-> [lifetimes |-> r1.v, types |-> r2.v, bindings |-> r3.v], f |-> r3.f]

noop_fold_parenthesized_parameter_data(data, f) ==
  LET r1 == MoveMap(fold_ty, data.inputs, f)
      r2 == MoveMap(fold_ty, data.opt_output, r1.f)
      r3 == new_span(data.span, r2.f)
  IN  [v |-> [inputs |-> r1.v, opt_output |-> r2.v, span |-> r3.v], f |-> r3.f]

noop_fold_ty_binding(b, f) ==
  LET r1 == new_id(b.id, f)
      r2 == fold_ty(b.ty, r1.f)
      r3 == new_span(b.span, r2.f)
  IN  [v |-> [id |-> r1.v, ident |-> b.ident, ty |-> r2.v, span |-> r3.v], f |-> r3.f]

noop_fold_lifetime(l, f) ==
  LET r1 == new_id(l.id, f)
      r2 == new_span(l.span, r1.f)
  IN  [v |-> [id |-> r1.v, name |-> l.name, span |-> r2.v], f |-> r2.f]

noop_fold_lifetime_def(l, f) ==
  LET r1 == fold_lifetime(l.lifetime, f)
      r2 == fold_lifetimes(l.bounds, r1.f)
  IN  [v |-> [lifetime |-> r1.v, bounds |-> r2.v], f |-> r2.f]

noop_fold_lifetimes(lts, f) == MoveMap(fold_lifetime, lts, f)

noop_fold_lifetime_defs(lts, f) == MoveMap(fold_lifetime_def, lts, f)

noop_fold_opt_lifetime(o_lt, f) == MoveMap(fold_lifetime, o_lt, f)

(***************************************************************************)
(* Types, bounds, generics, function declarations.                         *)
(***************************************************************************)
fold_qself(q, f) ==
  LET r == fold_ty(q.ty, f)
  IN  [v |-> [ty |-> r.v, position |-> q.position], f |-> r.f]

fold_bare_fn_ty(b, f) ==
  LET r1 == fold_lifetime_defs(b.lifetimes, f)
      r2 == fold_fn_decl(b.decl, r1.f)
  IN  [v |-> [b EXCEPT !.lifetimes = r1.v, !.decl = r2.v], f |-> r2.f]

noop_fold_ty_kind(node, f) ==
  CASE node.k = "Infer" -> [v |-> node, f |-> f]
    [] node.k \in {"Vec", "Paren"} ->
         LET r == fold_ty(node.ty, f) IN [v |-> [node EXCEPT !.ty = r.v], f |-> r.f]
    [] node.k = "Ptr" ->
         LET r == fold_mt(node.mt, f) IN [v |-> [node EXCEPT !.mt = r.v], f |-> r.f]
    [] node.k = "Rptr" ->
         LET r1 == fold_opt_lifetime(node.region, f)
             r2 == fold_mt(node.mt, r1.f)
         IN  [v |-> [node EXCEPT !.region = r1.v, !.mt = r2.v], f |-> r2.f]
    [] node.k = "BareFn" ->
         LET r == fold_bare_fn_ty(node.f, f) IN [v |-> [node EXCEPT !.f = r.v], f |-> r.f]
    [] node.k = "Tup" ->
         LET r == MoveMap(fold_ty, node.tys, f) IN [v |-> [node EXCEPT !.tys = r.v], f |-> r.f]
    [] node.k = "Path" ->
         LET r1 == MoveMap(fold_qself, node.qself, f)
             r2 == fold_path(node.path, r1.f)
         IN  [v |-> [node EXCEPT !.qself = r1.v, !.path = r2.v], f |-> r2.f]
    [] node.k = "ObjectSum" ->
         LET r1 == fold_ty(node.ty, f)
             r2 == fold_bounds(node.bounds, r1.f)
         IN  [v |-> [node EXCEPT !.ty = r1.v, !.bounds = r2.v], f |-> r2.f]
    [] node.k = "FixedLengthVec" ->
         LET r1 == fold_ty(node.ty, f)
             r2 == fold_expr(node.e, r1.f)
         IN  [v |-> [node EXCEPT !.ty = r1.v, !.e = r2.v], f |-> r2.f]
    [] node.k = "Typeof" ->
         LET r == fold_expr(node.e, f) IN [v |-> [node EXCEPT !.e = r.v], f |-> r.f]
    [] node.k = "PolyTraitRef" ->
         LET r == MoveMap(fold_ty_param_bound, node.bounds, f)
         IN  [v |-> [node EXCEPT !.bounds = r.v], f |-> r.f]
    [] node.k = "Mac" ->
         LET r == fold_mac(node.mac, f) IN [v |-> [node EXCEPT !.mac = r.v], f |-> r.f]

noop_fold_ty(t, f) ==
  LET r1 == new_id(t.id, f)
      r2 == Invoke("noop_fold_ty_kind", t.node, r1.f)
      r3 == new_span(t.span, r2.f)
  IN  [v |-> [id |-> r1.v, node |-> r2.v, span |-> r3.v], f |-> r3.f]

noop_fold_mt(mt, f) ==
  LET r == fold_ty(mt.ty, f) IN [v |-> [ty |-> r.v, mutbl |-> mt.mutbl], f |-> r.f]

noop_fold_ty_param_bound(tpb, f) ==
  IF tpb.k = "TraitTyParamBound"
  THEN LET r == fold_poly_trait_ref(tpb.ty, f) IN [v |-> [tpb EXCEPT !.ty = r.v], f |-> r.f]
  ELSE LET r == fold_lifetime(tpb.lifetime, f) IN [v |-> [tpb EXCEPT !.lifetime = r.v], f |-> r.f]

noop_fold_ty_param(tp, f) ==
  LET r1 == new_id(tp.id, f)
      r2 == fold_bounds(tp.bounds, r1.f)
      r3 == MoveMap(fold_ty, tp.default, r2.f)
  IN  [v |-> [id |-> r1.v, ident |-> tp.ident, bounds |-> r2.v, default |-> r3.v,
            span |-> tp.span], f |-> r3.f]

noop_fold_ty_params(tps, f) == MoveMap(fold_ty_param, tps, f)

noop_fold_generics(g, f) ==
  LET r1 == fold_ty_params(g.ty_params, f)
      r2 == fold_lifetime_defs(g.lifetimes, r1.f)
      r3 == fold_where_clause(g.where_clause, r2.f)
  IN  [v |-> [ty_params |-> r1.v, lifetimes |-> r2.v, where_clause |-> r3.v], f |-> r3.f]

noop_fold_where_clause(wc, f) ==
  LET r1 == new_id(wc.id, f)
      r2 == MoveMap(fold_where_predicate, wc.predicates, r1.f)
  IN  [v |-> [id |-> r1.v, predicates |-> r2.v], f |-> r2.f]

noop_fold_where_predicate(pred, f) ==
  CASE pred.k = "BoundPredicate" ->
         LET r1 == fold_lifetime_defs(pred.bound_lifetimes, f)
             r2 == fold_ty(pred.bounded_ty, r1.f)
             r3 == MoveMap(fold_ty_param_bound, pred.bounds, r2.f)
             r4 == new_span(pred.span, r3.f)
         IN  [v |-> [k |-> "BoundPredicate", bound_lifetimes |-> r1.v,
                   bounded_ty |-> r2.v, bounds |-> r3.v, span |-> r4.v], f |-> r4.f]
    [] pred.k = "RegionPredicate" ->
         LET r1 == new_span(pred.span, f)
             r2 == fold_lifetime(pred.lifetime, r1.f)
             r3 == MoveMap(fold_lifetime, pred.bounds, r2.f)
         IN  [v |-> [k |-> "RegionPredicate", span |-> r1.v, lifetime |-> r2.v,
                   bounds |-> r3.v], f |-> r3.f]
    [] pred.k = "EqPredicate" ->
         LET r1 == new_id(pred.id, f)
             r2 == fold_path(pred.path, r1.f)
             r3 == fold_ty(pred.ty, r2.f)
             r4 == new_span(pred.span, r3.f)
         IN  [v |-> [k |-> "EqPredicate", id |-> r1.v, path |-> r2.v, ty |-> r3.v,
                   span |-> r4.v], f |-> r4.f]

noop_fold_trait_ref(p, f) ==
  LET r1 == new_id(p.ref_id, f)
      r2 == fold_path(p.path, r1.f)
  IN  [v |-> [path |-> r2.v, ref_id |-> r1.v], f |-> r2.f]

noop_fold_poly_trait_ref(p, f) ==
  LET r1 == fold_lifetime_defs(p.bound_lifetimes, f)
      r2 == fold_trait_ref(p.trait_ref, r1.f)
      r3 == new_span(p.span, r2.f)
  IN  [v |-> [bound_lifetimes |-> r1.v, trait_ref |-> r2.v, span |-> r3.v], f |-> r3.f]

noop_fold_opt_bounds(b, f) == MoveMap(fold_bounds, b, f)

noop_fold_bounds(bounds, f) == MoveMap(fold_ty_param_bound, bounds, f)

\* A fold of arguments that passes the id to new_id after the pattern and the
\* type are folded.
noop_fold_arg_late(a, f) ==
  LET r2 == fold_pat(a.pat, f)
      r3 == fold_ty(a.ty, r2.f)
      r1 == new_id(a.id, r3.f)
  IN  [v |-> [id |-> r1.v, pat |-> r2.v, ty |-> r3.v], f |-> r1.f]

noop_fold_arg(a, f) ==
  LET r1 == new_id(a.id, f)
      r2 == fold_pat(a.pat, r1.f)
      r3 == fold_ty(a.ty, r2.f)
  IN  [v |-> [id |-> r1.v, pat |-> r2.v, ty |-> r3.v], f |-> r3.f]

fold_function_ret_ty(output, f) ==
  IF output.k = "Ty"
  THEN LET r == fold_ty(output.ty, f) IN [v |-> [k |-> "Ty", ty |-> r.v], f |-> r.f]
  ELSE [v |-> output, f |-> f]

noop_fold_fn_decl(decl, f) ==
  LET r1 == MoveMap(fold_arg, decl.inputs, f)
      r2 == fold_function_ret_ty(decl.output, r1.f)
  IN  [v |-> [inputs |-> r1.v, output |-> r2.v, variadic |-> decl.variadic], f |-> r2.f]

noop_fold_explicit_self_kind(es, f) ==
  CASE es.k \in {"Static", "Value"} -> [v |-> es, f |-> f]
    [] es.k = "Region" ->
         LET r == fold_opt_lifetime(es.opt_lifetime, f)
         IN  [v |-> [es EXCEPT !.opt_lifetime = r.v], f |-> r.f]
    [] es.k = "Explicit" ->
         LET r == fold_ty(es.ty, f) IN [v |-> [es EXCEPT !.ty = r.v], f |-> r.f]

noop_fold_explicit_self(es, f) ==
  LET r1 == fold_explicit_self_kind(es.node, f)
      r2 == new_span(es.span, r1.f)
  IN  [v |-> [node |-> r1.v, span |-> r2.v], f |-> r2.f]

noop_fold_method_sig(sig, f) ==
  LET r1 == fold_generics(sig.generics, f)
      r2 == fold_explicit_self(sig.explicit_self, r1.f)
      r3 == fold_fn_decl(sig.decl, r2.f)
  IN  [v |-> [sig EXCEPT !.generics = r1.v, !.explicit_self = r2.v, !.decl = r3.v], f |-> r3.f]

(***************************************************************************)
(* Attributes and meta items.                                              *)
(***************************************************************************)
noop_fold_meta_items(meta_items, f) == MoveMap(fold_meta_item, meta_items, f)

\* A fold of meta items that passes the name to fold_ident.
noop_fold_meta_item_kind_named(node, f) ==
  LET r1 == fold_ident(node.mi_name, f)
  IN  IF node.k = "List"
      THEN LET r2 == MoveMap(fold_meta_item, node.mis, r1.f)
           IN  [v |-> [k |-> "List", mi_name |-> r1.v, mis |-> r2.v], f |-> r2.f]
      ELSE [v |-> [node EXCEPT !.mi_name = r1.v], f |-> r1.f]

noop_fold_meta_item_kind(node, f) ==
  IF node.k = "List"
  THEN LET r == MoveMap(fold_meta_item, node.mis, f)
       IN  [v |-> [k |-> "List", mi_name |-> node.mi_name, mis |-> r.v], f |-> r.f]
  ELSE [v |-> node, f |-> f]

noop_fold_meta_item(mi, f) ==
  LET r1 == Invoke("noop_fold_meta_item_kind", mi.node, f)
      r2 == new_span(mi.span, r1.f)
  IN  [v |-> [node |-> r1.v, span |-> r2.v], f |-> r2.f]

\* A fold of attributes that drops the attribute.
noop_fold_attribute_dropped(at, f) ==
  LET r1 == fold_meta_item(at.node.value, f)
      r2 == new_span(at.span, r1.f)
  IN  [v |-> <<>>, f |-> r2.f]

noop_fold_attribute(at, f) ==
  LET r1 == fold_meta_item(at.node.value, f)
      r2 == new_span(at.span, r1.f)
  IN  [v |-> <<[node |-> [at.node EXCEPT !.value = r1.v], span |-> r2.v]>>, f |-> r2.f]

fold_attrs(attrs, f) == MoveFlatMap(fold_attribute, attrs, f)

fold_thin_attrs(attrs, f) == fold_attrs(attrs, f)

(***************************************************************************)
(* Tokens, token trees, interpolated fragments, macro invocations.         *)
(***************************************************************************)
\* A fold of an invocation that keeps its span as it is.
noop_fold_mac_unspanned(mac, f) ==
  LET r1 == fold_path(mac.node.path, f)
      r2 == fold_tts(mac.node.tts, r1.f)
  IN  [v |-> [node |-> [path |-> r1.v, tts |-> r2.v, ctxt |-> mac.node.ctxt],
              span |-> mac.span], f |-> r2.f]

noop_fold_mac(mac, f) ==
  LET r1 == fold_path(mac.node.path, f)
      r2 == fold_tts(mac.node.tts, r1.f)
      r3 == new_span(mac.span, r2.f)
  IN  [v |-> [node |-> [path |-> r1.v, tts |-> r2.v, ctxt |-> mac.node.ctxt],
            span |-> r3.v], f |-> r3.f]

\* A fold of token trees that does not fold the separator of a repetition.
noop_fold_tt_unseparated(tt, f) ==
  CASE tt.k = "Token" ->
         LET r == fold_token(tt.tok, f)
         IN  [v |-> [k |-> "Token", span |-> tt.span, tok |-> r.v], f |-> r.f]
    [] tt.k = "Delimited" ->
         LET r == fold_tts(tt.delimed.tts, f)
         IN  [v |-> [tt EXCEPT !.delimed.tts = r.v], f |-> r.f]
    [] tt.k = "Sequence" ->
         LET r == fold_tts(tt.seq.tts, f)
         IN  [v |-> [tt EXCEPT !.seq.tts = r.v], f |-> r.f]

\* A fold of token trees that passes the spans of a delimited group to new_span.
noop_fold_tt_respanned(tt, f) ==
  CASE tt.k = "Token" ->
         LET r == fold_token(tt.tok, f)
         IN  [v |-> [k |-> "Token", span |-> tt.span, tok |-> r.v], f |-> r.f]
    [] tt.k = "Delimited" ->
         LET r1 == new_span(tt.span, f)
             r2 == new_span(tt.delimed.open_span, r1.f)
             r3 == fold_tts(tt.delimed.tts, r2.f)
             r4 == new_span(tt.delimed.close_span, r3.f)
         IN  [v |-> [k |-> "Delimited", span |-> r1.v,
                   delimed |-> [delim |-> tt.delimed.delim, open_span |-> r2.v,
                                tts |-> r3.v, close_span |-> r4.v]], f |-> r4.f]
    [] tt.k = "Sequence" ->
         LET r1 == fold_tts(tt.seq.tts, f)
             r2 == MoveMap(fold_token, tt.seq.separator, r1.f)
         IN  [v |-> [k |-> "Sequence", span |-> tt.span,
                   seq |-> [tt.seq EXCEPT !.tts = r1.v, !.separator = r2.v]], f |-> r2.f]

noop_fold_tt(tt, f) ==
  CASE tt.k = "Token" ->
         LET r == fold_token(tt.tok, f)
         IN  [v |-> [k |-> "Token", span |-> tt.span, tok |-> r.v], f |-> r.f]
    [] tt.k = "Delimited" ->
         LET r == fold_tts(tt.delimed.tts, f)
         IN  [v |-> [k |-> "Delimited", span |-> tt.span,
                   delimed |-> [delim |-> tt.delimed.delim,
                                open_span |-> tt.delimed.open_span,
                                tts |-> r.v,
                                close_span |-> tt.delimed.close_span]], f |-> r.f]
    [] tt.k = "Sequence" ->
         LET r1 == fold_tts(tt.seq.tts, f)
             r2 == MoveMap(fold_token, tt.seq.separator, r1.f)
         IN  [v |-> [k |-> "Sequence", span |-> tt.span,
                   seq |-> [tt.seq EXCEPT !.tts = r1.v, !.separator = r2.v]], f |-> r2.f]

noop_fold_tts(tts, f) == MoveMap(fold_tt, tts, f)

\* A fold of tokens that leaves the lifetimes and the fragment kinds alone.
noop_fold_token_idents(t, f) ==
  CASE t.k \in {"Ident", "SubstNt"} ->
         LET r == fold_ident(t.ident, f) IN [v |-> [t EXCEPT !.ident = r.v], f |-> r.f]
    [] t.k = "Interpolated" ->
         LET r == fold_interpolated(t.nt, f) IN [v |-> [t EXCEPT !.nt = r.v], f |-> r.f]
    [] t.k = "MatchNt" ->
         LET r == fold_ident(t.name, f) IN [v |-> [t EXCEPT !.name = r.v], f |-> r.f]
    [] OTHER -> [v |-> t, f |-> f]

noop_fold_token(t, f) ==
  CASE t.k = "Ident" ->
         LET r == fold_ident(t.ident, f) IN [v |-> [t EXCEPT !.ident = r.v], f |-> r.f]
    [] t.k = "Lifetime" ->
         LET r == fold_ident(t.ident, f) IN [v |-> [t EXCEPT !.ident = r.v], f |-> r.f]
    [] t.k = "Interpolated" ->
         LET r == fold_interpolated(t.nt, f) IN [v |-> [t EXCEPT !.nt = r.v], f |-> r.f]
    [] t.k = "SubstNt" ->
         LET r == fold_ident(t.ident, f) IN [v |-> [t EXCEPT !.ident = r.v], f |-> r.f]
    [] t.k = "MatchNt" ->
         LET r1 == fold_ident(t.name, f)
             r2 == fold_ident(t.frag, r1.f)
         IN  [v |-> [t EXCEPT !.name = r1.v, !.frag = r2.v], f |-> r2.f]
    [] OTHER -> [v |-> t, f |-> f]

\* A fold of fragments that takes the first of the results of a singular
\* fragment, whatever their number, and leaves the other fragments alone.
first_result(r) == [v |-> IF r.v = <<>> THEN <<>> ELSE r.v[1], f |-> r.f]

noop_fold_interpolated_lenient(nt, f) ==
  CASE nt.k = "NtItem" ->
         LET r == first_result(fold_item(nt.item, f))
         IN  [v |-> [k |-> "NtItem", item |-> r.v], f |-> r.f]
    [] nt.k = "NtStmt" ->
         LET r == first_result(fold_stmt(nt.stmt, f))
         IN  [v |-> [k |-> "NtStmt", stmt |-> r.v], f |-> r.f]
    [] nt.k = "NtImplItem" ->
         LET r == first_result(fold_impl_item(nt.impl_item, f))
         IN  [v |-> [k |-> "NtImplItem", impl_item |-> r.v], f |-> r.f]
    [] nt.k = "NtTraitItem" ->
         LET r == first_result(fold_trait_item(nt.trait_item, f))
         IN  [v |-> [k |-> "NtTraitItem", trait_item |-> r.v], f |-> r.f]
    [] OTHER -> [v |-> nt, f |-> f]

\* A fold of fragments that folds an identifier fragment to a plain one with
\* the span of the fold, and leaves the other fragments alone.
noop_fold_interpolated_respanned(nt, f) ==
  CASE nt.k = "NtIdent" ->
         LET r1 == new_span(nt.sident.span, f)
             r2 == fold_ident(nt.sident.leaf, r1.f)
         IN  [v |-> [k |-> "NtIdent", sident |-> [leaf |-> r2.v, span |-> r1.v],
                     is_mod_name |-> "Plain"], f |-> r2.f]
    [] OTHER -> [v |-> nt, f |-> f]

noop_fold_interpolated(nt, f) ==
  CASE nt.k = "NtItem" ->
         LET r == expect_one(fold_item(nt.item, f),
                             "expected fold to produce exactly one item")
         IN  [v |-> [k |-> "NtItem", item |-> r.v], f |-> r.f]
    [] nt.k = "NtBlock" ->
         LET r == fold_block(nt.block, f) IN [v |-> [k |-> "NtBlock", block |-> r.v], f |-> r.f]
    [] nt.k = "NtStmt" ->
         LET r == expect_one(fold_stmt(nt.stmt, f),
                             "expected fold to produce exactly one statement")
         IN  [v |-> [k |-> "NtStmt", stmt |-> r.v], f |-> r.f]
    [] nt.k = "NtPat" ->
         LET r == fold_pat(nt.pat, f) IN [v |-> [k |-> "NtPat", pat |-> r.v], f |-> r.f]
    [] nt.k = "NtExpr" ->
         LET r == fold_expr(nt.expr, f) IN [v |-> [k |-> "NtExpr", expr |-> r.v], f |-> r.f]
    [] nt.k = "NtTy" ->
         LET r == fold_ty(nt.ty, f) IN [v |-> [k |-> "NtTy", ty |-> r.v], f |-> r.f]
    [] nt.k = "NtIdent" ->
         LET r == fold_ident(nt.sident.leaf, f)
         IN  [v |-> [k |-> "NtIdent", sident |-> [nt.sident EXCEPT !.leaf = r.v],
                   is_mod_name |-> nt.is_mod_name], f |-> r.f]
    [] nt.k = "NtMeta" ->
         LET r == fold_meta_item(nt.meta_item, f)
         IN  [v |-> [k |-> "NtMeta", meta_item |-> r.v], f |-> r.f]
    [] nt.k = "NtPath" ->
         LET r == fold_path(nt.path, f) IN [v |-> [k |-> "NtPath", path |-> r.v], f |-> r.f]
    [] nt.k = "NtTT" ->
         LET r == fold_tt(nt.tt, f) IN [v |-> [k |-> "NtTT", tt |-> r.v], f |-> r.f]
    [] nt.k = "NtArm" ->
         LET r == fold_arm(nt.arm, f) IN [v |-> [k |-> "NtArm", arm |-> r.v], f |-> r.f]
    [] nt.k = "NtImplItem" ->
         LET r == expect_one(fold_impl_item(nt.impl_item, f),
                             "expected fold to produce exactly one item")
         IN  [v |-> [k |-> "NtImplItem", impl_item |-> r.v], f |-> r.f]
    [] nt.k = "NtTraitItem" ->
         LET r == expect_one(fold_trait_item(nt.trait_item, f),
                             "expected fold to produce exactly one item")
         IN  [v |-> [k |-> "NtTraitItem", trait_item |-> r.v], f |-> r.f]
    [] nt.k = "NtGenerics" ->
         LET r == fold_generics(nt.generics, f)
         IN  [v |-> [k |-> "NtGenerics", generics |-> r.v], f |-> r.f]
    [] nt.k = "NtWhereClause" ->
         LET r == fold_where_clause(nt.where_clause, f)
         IN  [v |-> [k |-> "NtWhereClause", where_clause |-> r.v], f |-> r.f]
    [] nt.k = "NtArg" ->
         LET r == fold_arg(nt.arg, f) IN [v |-> [k |-> "NtArg", arg |-> r.v], f |-> r.f]

(***************************************************************************)
(* Patterns, expressions, blocks, statements.                              *)
(***************************************************************************)
fold_pats(pats, f) == MoveMap(fold_pat, pats, f)

fold_field_pat(fp, f) ==
  LET r1 == new_span(fp.span, f)
      r2 == fold_pat(fp.node.pat, r1.f)
  IN  [v |-> [span |-> r1.v,
            node |-> [ident |-> fp.node.ident, pat |-> r2.v,
                      is_shorthand |-> fp.node.is_shorthand]], f |-> r2.f]

noop_fold_pat_kind(node, f) ==
  CASE node.k = "Wild" -> [v |-> node, f |-> f]
    [] node.k = "Ident" ->
         LET r1 == new_span(node.pth1.span, f)
             r2 == fold_ident(node.pth1.leaf, r1.f)
             r3 == MoveMap(fold_pat, node.sub, r2.f)
         IN  [v |-> [node EXCEPT !.pth1 = [span |-> r1.v, leaf |-> r2.v],
                               !.sub = r3.v], f |-> r3.f]
    [] node.k = "Lit" ->
         LET r == fold_expr(node.e, f) IN [v |-> [node EXCEPT !.e = r.v], f |-> r.f]
    [] node.k = "TupleStruct" ->
         LET r1 == fold_path(node.pth, f)
             r2 == MoveMap(fold_pats, node.opt_pats, r1.f)
         IN  [v |-> [node EXCEPT !.pth = r1.v, !.opt_pats = r2.v], f |-> r2.f]
    [] node.k = "Path" ->
         LET r == fold_path(node.pth, f) IN [v |-> [node EXCEPT !.pth = r.v], f |-> r.f]
    [] node.k = "QPath" ->
         LET r1 == fold_ty(node.qs.ty, f)
             r2 == fold_path(node.pth, r1.f)
         IN  [v |-> [node EXCEPT !.qs = [node.qs EXCEPT !.ty = r1.v],
                               !.pth = r2.v], f |-> r2.f]
    [] node.k = "Struct" ->
         LET r1 == fold_path(node.pth, f)
             r2 == MoveMap(fold_field_pat, node.fields, r1.f)
         IN  [v |-> [node EXCEPT !.pth = r1.v, !.fields = r2.v], f |-> r2.f]
    [] node.k = "Tup" ->
         LET r == MoveMap(fold_pat, node.elts, f)
         IN  [v |-> [node EXCEPT !.elts = r.v], f |-> r.f]
    [] node.k \in {"Box", "Ref"} ->
         LET r == fold_pat(node.p, f) IN [v |-> [node EXCEPT !.p = r.v], f |-> r.f]
    [] node.k = "Range" ->
         LET r1 == fold_expr(node.e1, f)
             r2 == fold_expr(node.e2, r1.f)
         IN  [v |-> [node EXCEPT !.e1 = r1.v, !.e2 = r2.v], f |-> r2.f]
    [] node.k = "Vec" ->
         LET r1 == MoveMap(fold_pat, node.before, f)
             r2 == MoveMap(fold_pat, node.slice, r1.f)
             r3 == MoveMap(fold_pat, node.after, r2.f)
         IN  [v |-> [node EXCEPT !.before = r1.v, !.slice = r2.v, !.after = r3.v], f |-> r3.f]
    [] node.k = "Mac" ->
         LET r == fold_mac(node.mac, f) IN [v |-> [node EXCEPT !.mac = r.v], f |-> r.f]

noop_fold_pat(p, f) ==
  LET r1 == new_id(p.id, f)
      r2 == Invoke("noop_fold_pat_kind", p.node, r1.f)
      r3 == new_span(p.span, r2.f)
  IN  [v |-> [id |-> r1.v, node |-> r2.v, span |-> r3.v], f |-> r3.f]

\* respan(folder.new_span(x.span), folder.fold_ident(x.node))
fold_spanned_ident(x, f) ==
  LET r1 == new_span(x.span, f)
      r2 == fold_ident(x.leaf, r1.f)
  IN  [v |-> [leaf |-> r2.v, span |-> r1.v], f |-> r2.f]

\* respan(folder.new_span(x.span), folder.fold_usize(x.node))
fold_spanned_usize(x, f) ==
  LET r1 == new_span(x.span, f)
      r2 == fold_usize(x.n, r1.f)
  IN  [v |-> [n |-> r2.v, span |-> r1.v], f |-> r2.f]

fold_asm_input(inp, f) ==
  LET r == fold_expr(inp.expr, f) IN [v |-> [inp EXCEPT !.expr = r.v], f |-> r.f]

fold_asm_output(o, f) ==
  LET r == fold_expr(o.expr, f) IN [v |-> [o EXCEPT !.expr = r.v], f |-> r.f]

noop_fold_expr_kind(node, f) ==
  CASE node.k \in {"Box", "Unary", "AddrOf", "Paren", "Try"} ->
         LET r == fold_expr(node.e, f) IN [v |-> [node EXCEPT !.e = r.v], f |-> r.f]
    [] node.k \in {"InPlace", "Repeat", "Binary", "Assign", "AssignOp", "Index"} ->
         LET r1 == fold_expr(node.e1, f)
             r2 == fold_expr(node.e2, r1.f)
         IN  [v |-> [node EXCEPT !.e1 = r1.v, !.e2 = r2.v], f |-> r2.f]
    [] node.k \in {"Vec", "Tup"} ->
         LET r == fold_exprs(node.exprs, f) IN [v |-> [node EXCEPT !.exprs = r.v], f |-> r.f]
    [] node.k = "Call" ->
         LET r1 == fold_expr(node.f, f)
             r2 == fold_exprs(node.args, r1.f)
         IN  [v |-> [node EXCEPT !.f = r1.v, !.args = r2.v], f |-> r2.f]
    [] node.k = "MethodCall" ->
         LET r1 == fold_spanned_ident(node.i, f)
             r2 == MoveMap(fold_ty, node.tps, r1.f)
             r3 == fold_exprs(node.args, r2.f)
         IN  [v |-> [node EXCEPT !.i = r1.v, !.tps = r2.v, !.args = r3.v], f |-> r3.f]
    [] node.k = "Lit" -> [v |-> node, f |-> f]
    [] node.k \in {"Cast", "Type"} ->
         LET r1 == fold_expr(node.e, f)
             r2 == fold_ty(node.ty, r1.f)
         IN  [v |-> [node EXCEPT !.e = r1.v, !.ty = r2.v], f |-> r2.f]
    [] node.k = "If" ->
         LET r1 == fold_expr(node.cond, f)
             r2 == fold_block(node.tr, r1.f)
             r3 == MoveMap(fold_expr, node.fl, r2.f)
         IN  [v |-> [node EXCEPT !.cond = r1.v, !.tr = r2.v, !.fl = r3.v], f |-> r3.f]
    [] node.k = "IfLet" ->
         LET r1 == fold_pat(node.pat, f)
             r2 == fold_expr(node.e, r1.f)
             r3 == fold_block(node.tr, r2.f)
             r4 == MoveMap(fold_expr, node.fl, r3.f)
         IN  [v |-> [node EXCEPT !.pat = r1.v, !.e = r2.v, !.tr = r3.v, !.fl = r4.v], f |-> r4.f]
    [] node.k = "While" ->
         LET r1 == fold_expr(node.cond, f)
             r2 == fold_block(node.body, r1.f)
             r3 == MoveMap(fold_ident, node.opt_ident, r2.f)
         IN  [v |-> [node EXCEPT !.cond = r1.v, !.body = r2.v, !.opt_ident = r3.v], f |-> r3.f]
    [] node.k \in {"WhileLet", "ForLoop"} ->
         LET r1 == fold_pat(node.pat, f)
             r2 == fold_expr(node.e, r1.f)
             r3 == fold_block(node.body, r2.f)
             r4 == MoveMap(fold_ident, node.opt_ident, r3.f)
         IN  [v |-> [node EXCEPT !.pat = r1.v, !.e = r2.v, !.body = r3.v,
                               !.opt_ident = r4.v], f |-> r4.f]
    [] node.k = "Loop" ->
         LET r1 == fold_block(node.body, f)
             r2 == MoveMap(fold_ident, node.opt_ident, r1.f)
         IN  [v |-> [node EXCEPT !.body = r1.v, !.opt_ident = r2.v], f |-> r2.f]
    [] node.k = "Match" ->
         LET r1 == fold_expr(node.e, f)
             r2 == MoveMap(fold_arm, node.arms, r1.f)
         IN  [v |-> [node EXCEPT !.e = r1.v, !.arms = r2.v], f |-> r2.f]
    [] node.k = "Closure" ->
         LET r1 == fold_fn_decl(node.decl, f)
             r2 == fold_block(node.body, r1.f)
         IN  [v |-> [node EXCEPT !.decl = r1.v, !.body = r2.v], f |-> r2.f]
    [] node.k = "Block" ->
         LET r == fold_block(node.blk, f) IN [v |-> [node EXCEPT !.blk = r.v], f |-> r.f]
    [] node.k = "Field" ->
         LET r1 == fold_expr(node.e, f)
             r2 == fold_spanned_ident(node.sident, r1.f)
         IN  [v |-> [node EXCEPT !.e = r1.v, !.sident = r2.v], f |-> r2.f]
    [] node.k = "TupField" ->
         LET r1 == fold_expr(node.e, f)
             r2 == fold_spanned_usize(node.idx, r1.f)
         IN  [v |-> [node EXCEPT !.e = r1.v, !.idx = r2.v], f |-> r2.f]
    [] node.k = "Range" ->
         LET r1 == MoveMap(fold_expr, node.start, f)
             r2 == MoveMap(fold_expr, node.end, r1.f)
         IN  [v |-> [node EXCEPT !.start = r1.v, !.end = r2.v], f |-> r2.f]
    [] node.k = "Path" ->
         LET r1 == MoveMap(fold_qself, node.qself, f)
             r2 == fold_path(node.path, r1.f)
         IN  [v |-> [node EXCEPT !.qself = r1.v, !.path = r2.v], f |-> r2.f]
    [] node.k \in {"Break", "Again"} ->
         LET r == MoveMap(fold_spanned_ident, node.label, f)
         IN  [v |-> [node EXCEPT !.label = r.v], f |-> r.f]
    [] node.k = "Ret" ->
         LET r == MoveMap(fold_expr, node.opt_e, f)
         IN  [v |-> [node EXCEPT !.opt_e = r.v], f |-> r.f]
    [] node.k = "InlineAsm" ->
         LET r1 == MoveMap(fold_asm_input, node.inputs, f)
             r2 == MoveMap(fold_asm_output, node.outputs, r1.f)
         IN  [v |-> [node EXCEPT !.inputs = r1.v, !.outputs = r2.v], f |-> r2.f]
    [] node.k = "Mac" ->
         LET r == fold_mac(node.mac, f) IN [v |-> [node EXCEPT !.mac = r.v], f |-> r.f]
    [] node.k = "Struct" ->
         LET r1 == fold_path(node.path, f)
             r2 == MoveMap(fold_field, node.fields, r1.f)
             r3 == MoveMap(fold_expr, node.maybe_expr, r2.f)
         IN  [v |-> [node EXCEPT !.path = r1.v, !.fields = r2.v, !.maybe_expr = r3.v], f |-> r3.f]

noop_fold_expr(e, f) ==
  LET r1 == new_id(e.id, f)
      r2 == Invoke("noop_fold_expr_kind", e.node, r1.f)
      r3 == new_span(e.span, r2.f)
      r4 == fold_thin_attrs(e.attrs, r3.f)
  IN  [v |-> [id |-> r1.v, node |-> r2.v, span |-> r3.v, attrs |-> r4.v], f |-> r4.f]

noop_fold_opt_expr(e, f) ==
  LET r == fold_expr(e, f) IN [v |-> <<r.v>>, f |-> r.f]

\* A fold of expression lists that passes every element to fold_expr.
noop_fold_exprs_all(es, f) == MoveMap(fold_expr, es, f)

noop_fold_exprs(es, f) == MoveFlatMap(fold_opt_expr, es, f)

noop_fold_field(fd, f) ==
  LET r1 == fold_ident(fd.sident.leaf, f)
      r2 == fold_expr(fd.expr, r1.f)
      r3 == new_span(fd.span, r2.f)
  IN  [v |-> [sident |-> [leaf |-> r1.v, span |-> fd.sident.span], expr |-> r2.v,
            span |-> r3.v], f |-> r3.f]

noop_fold_arm(a, f) ==
  LET r1 == fold_attrs(a.attrs, f)
      r2 == MoveMap(fold_pat, a.pats, r1.f)
      r3 == MoveMap(fold_expr, a.guard, r2.f)
      r4 == fold_expr(a.body, r3.f)
  IN  [v |-> [attrs |-> r1.v, pats |-> r2.v, guard |-> r3.v, body |-> r4.v], f |-> r4.f]

noop_fold_local(l, f) ==
  LET r1 == new_id(l.id, f)
      r2 == MoveMap(fold_ty, l.opt_ty, r1.f)
      r3 == fold_pat(l.pat, r2.f)
      r4 == MoveMap(fold_expr, l.init, r3.f)
      r5 == new_span(l.span, r4.f)
      r6 == fold_thin_attrs(l.attrs, r5.f)
  IN  [v |-> [id |-> r1.v, opt_ty |-> r2.v, pat |-> r3.v, init |-> r4.v, span |-> r5.v,
            attrs |-> r6.v], f |-> r6.f]

noop_fold_decl(d, f) ==
  IF d.node.k = "Local"
  THEN LET r1 == fold_local(d.node.l, f)
           r2 == new_span(d.span, r1.f)
       IN  [v |-> <<[node |-> [k |-> "Local", l |-> r1.v], span |-> r2.v]>>, f |-> r2.f]
  ELSE LET respanned(i, g) ==
             LET r == new_span(d.span, g)
             IN  [v |-> [node |-> [k |-> "Item", it |-> i], span |-> r.v], f |-> r.f]
           r1 == fold_item(d.node.it, f)
       IN  MoveMap(respanned, r1.v, r1.f)

\* A fold of blocks that passes the trailing expression to fold_expr.
noop_fold_block_tailed(b, f) ==
  LET r1 == new_id(b.id, f)
      r2 == MoveFlatMap(fold_stmt, b.stmts, r1.f)
      r3 == MoveMap(fold_expr, b.expr, r2.f)
      r4 == new_span(b.span, r3.f)
  IN  [v |-> [id |-> r1.v, stmts |-> r2.v, expr |-> r3.v, rules |-> b.rules,
            span |-> r4.v], f |-> r4.f]

noop_fold_block(b, f) ==
  LET r1 == new_id(b.id, f)
      r2 == MoveFlatMap(fold_stmt, b.stmts, r1.f)
      r3 == MoveFlatMap(fold_opt_expr, b.expr, r2.f)
      r4 == new_span(b.span, r3.f)
  IN  [v |-> [id |-> r1.v, stmts |-> r2.v, expr |-> r3.v, rules |-> b.rules,
            span |-> r4.v], f |-> r4.f]

\* A fold of statements that keeps an expression statement, unfolded, when
\* fold_opt_expr returns nothing for its expression.
noop_fold_stmt_kept(s, f) ==
  LET r0 == new_span(s.span, f)
      node == s.node
  IN  CASE node.k = "Decl" ->
             LET r1 == new_id(node.id, r0.f)
                 r2 == fold_decl(node.d, r1.f)
             IN  [v |-> [i \in 1..Len(r2.v) |->
                         [node |-> [k |-> "Decl", d |-> r2.v[i], id |-> r1.v],
                          span |-> r0.v]], f |-> r2.f]
        [] node.k \in {"Expr", "Semi"} ->
             LET r1 == new_id(node.id, r0.f)
                 r2 == fold_opt_expr(node.e, r1.f)
                 e2 == IF r2.v = <<>> THEN node.e ELSE r2.v[1]
             IN  [v |-> <<[node |-> [k |-> node.k, e |-> e2, id |-> r1.v],
                         span |-> r0.v]>>, f |-> r2.f]
        [] node.k = "Mac" ->
             LET r1 == fold_mac(node.mac, r0.f)
                 r2 == fold_thin_attrs(node.attrs, r1.f)
             IN  [v |-> <<[node |-> [k |-> "Mac", mac |-> r1.v, semi |-> node.semi,
                                   attrs |-> r2.v],
                         span |-> r0.v]>>, f |-> r2.f]

noop_fold_stmt(s, f) ==
  LET r0 == new_span(s.span, f)
      node == s.node
  IN  CASE node.k = "Decl" ->
             LET r1 == new_id(node.id, r0.f)
                 r2 == fold_decl(node.d, r1.f)
             IN  [v |-> [i \in 1..Len(r2.v) |->
                         [node |-> [k |-> "Decl", d |-> r2.v[i], id |-> r1.v],
                          span |-> r0.v]], f |-> r2.f]
        [] node.k \in {"Expr", "Semi"} ->
             LET r1 == new_id(node.id, r0.f)
                 r2 == fold_opt_expr(node.e, r1.f)
             IN  [v |-> [i \in 1..Len(r2.v) |->
                         [node |-> [k |-> node.k, e |-> r2.v[i], id |-> r1.v],
                          span |-> r0.v]], f |-> r2.f]
        [] node.k = "Mac" ->
             LET r1 == fold_mac(node.mac, r0.f)
                 r2 == fold_thin_attrs(node.attrs, r1.f)
             IN  [v |-> <<[node |-> [k |-> "Mac", mac |-> r1.v, semi |-> node.semi,
                                   attrs |-> r2.v],
                         span |-> r0.v]>>, f |-> r2.f]

(***************************************************************************)
(* Items and the crate.                                                    *)
(***************************************************************************)
fold_path_list_item(pli, f) ==
  LET r1 == new_id(pli.node.id, f)
      r2 == new_span(pli.span, r1.f)
  IN  [v |-> [node |-> [pli.node EXCEPT !.id = r1.v], span |-> r2.v], f |-> r2.f]

noop_fold_view_path_kind(node, f) ==
  CASE node.k \in {"ViewPathSimple", "ViewPathGlob"} ->
         LET r == fold_path(node.path, f) IN [v |-> [node EXCEPT !.path = r.v], f |-> r.f]
    [] node.k = "ViewPathList" ->
         LET r1 == fold_path(node.path, f)
             r2 == MoveMap(fold_path_list_item, node.path_list_idents, r1.f)
         IN  [v |-> [node EXCEPT !.path = r1.v, !.path_list_idents = r2.v], f |-> r2.f]

noop_fold_view_path(vp, f) ==
  LET r1 == Invoke("noop_fold_view_path_kind", vp.node, f)
      r2 == new_span(vp.span, r1.f)
  IN  [v |-> [node |-> r1.v, span |-> r2.v], f |-> r2.f]

noop_fold_foreign_mod(nm, f) ==
  LET r == MoveMap(fold_foreign_item, nm.items, f)
  IN  [v |-> [abi |-> nm.abi, items |-> r.v], f |-> r.f]

noop_fold_variant(v, f) ==
  LET r1 == fold_attrs(v.node.attrs, f)
      r2 == fold_variant_data(v.node.data, r1.f)
      r3 == MoveMap(fold_expr, v.node.disr_expr, r2.f)
      r4 == new_span(v.span, r3.f)
  IN  [v |-> [node |-> [name |-> v.node.name, attrs |-> r1.v, data |-> r2.v,
                      disr_expr |-> r3.v],
            span |-> r4.v], f |-> r4.f]

noop_fold_variant_data(vdata, f) ==
  IF vdata.k = "Unit"
  THEN LET r == new_id(vdata.id, f) IN [v |-> [k |-> "Unit", id |-> r.v], f |-> r.f]
  ELSE LET r1 == MoveMap(fold_struct_field, vdata.fields, f)
           r2 == new_id(vdata.id, r1.f)
       IN  [v |-> [k |-> vdata.k, fields |-> r1.v, id |-> r2.v], f |-> r2.f]

noop_fold_struct_field(sf, f) ==
  LET r1 == new_id(sf.node.id, f)
      r2 == fold_ty(sf.node.ty, r1.f)
      r3 == fold_attrs(sf.node.attrs, r2.f)
      r4 == new_span(sf.span, r3.f)
  IN  [v |-> [node |-> [id |-> r1.v, kind |-> sf.node.kind, ty |-> r2.v, attrs |-> r3.v],
            span |-> r4.v], f |-> r4.f]

noop_fold_item_kind(i, f) ==
  CASE i.k = "ExternCrate" -> [v |-> i, f |-> f]
    [] i.k = "Use" ->
         LET r == fold_view_path(i.view_path, f)
         IN  [v |-> [i EXCEPT !.view_path = r.v], f |-> r.f]
    [] i.k \in {"Static", "Const"} ->
         LET r1 == fold_ty(i.t, f)
             r2 == fold_expr(i.e, r1.f)
         IN  [v |-> [i EXCEPT !.t = r1.v, !.e = r2.v], f |-> r2.f]
    [] i.k = "Fn" ->
         LET r1 == fold_fn_decl(i.decl, f)
             r2 == fold_generics(i.generics, r1.f)
             r3 == fold_block(i.body, r2.f)
         IN  [v |-> [i EXCEPT !.decl = r1.v, !.generics = r2.v, !.body = r3.v], f |-> r3.f]
    [] i.k = "Mod" ->
         LET r == fold_mod(i.m, f) IN [v |-> [i EXCEPT !.m = r.v], f |-> r.f]
    [] i.k = "ForeignMod" ->
         LET r == fold_foreign_mod(i.nm, f) IN [v |-> [i EXCEPT !.nm = r.v], f |-> r.f]
    [] i.k = "Ty" ->
         LET r1 == fold_ty(i.t, f)
             r2 == fold_generics(i.generics, r1.f)
         IN  [v |-> [i EXCEPT !.t = r1.v, !.generics = r2.v], f |-> r2.f]
    [] i.k = "Enum" ->
         LET r1 == MoveMap(fold_variant, i.enum_definition.variants, f)
             r2 == fold_generics(i.generics, r1.f)
         IN  [v |-> [i EXCEPT !.enum_definition = [variants |-> r1.v],
                            !.generics = r2.v], f |-> r2.f]
    [] i.k = "Struct" ->
         LET r1 == fold_variant_data(i.struct_def, f)
             r2 == fold_generics(i.generics, r1.f)
         IN  [v |-> [i EXCEPT !.struct_def = r1.v, !.generics = r2.v], f |-> r2.f]
    [] i.k = "DefaultImpl" ->
         LET r == fold_trait_ref(i.trait_ref, f)
         IN  [v |-> [i EXCEPT !.trait_ref = r.v], f |-> r.f]
    [] i.k = "Impl" ->
         LET r1 == MoveFlatMap(fold_impl_item, i.impl_items, f)
             r2 == MoveMap(fold_trait_ref, i.ifce, r1.f)
             r3 == fold_generics(i.generics, r2.f)
             r4 == fold_ty(i.ty, r3.f)
         IN  [v |-> [i EXCEPT !.impl_items = r1.v, !.ifce = r2.v, !.generics = r3.v,
                            !.ty = r4.v], f |-> r4.f]
    [] i.k = "Trait" ->
         LET r1 == fold_bounds(i.bounds, f)
             r2 == MoveFlatMap(fold_trait_item, i.items, r1.f)
             r3 == fold_generics(i.generics, r2.f)
         IN  [v |-> [i EXCEPT !.bounds = r1.v, !.items = r2.v, !.generics = r3.v], f |-> r3.f]
    [] i.k = "Mac" ->
         LET r == fold_mac(i.m, f) IN [v |-> [i EXCEPT !.m = r.v], f |-> r.f]

noop_fold_trait_item_kind(node, f) ==
  CASE node.k = "Const" ->
         LET r1 == fold_ty(node.ty, f)
             r2 == MoveMap(fold_expr, node.default, r1.f)
         IN  [v |-> [node EXCEPT !.ty = r1.v, !.default = r2.v], f |-> r2.f]
    [] node.k = "Method" ->
         LET r1 == Invoke("noop_fold_method_sig", node.sig, f)
             r2 == MoveMap(fold_block, node.opt_body, r1.f)
         IN  [v |-> [node EXCEPT !.sig = r1.v, !.opt_body = r2.v], f |-> r2.f]
    [] node.k = "Type" ->
         LET r1 == fold_bounds(node.bounds, f)
             r2 == MoveMap(fold_ty, node.default, r1.f)
         IN  [v |-> [node EXCEPT !.bounds = r1.v, !.default = r2.v], f |-> r2.f]

noop_fold_trait_item(i, f) ==
  LET r1 == new_id(i.id, f)
      r2 == fold_ident(i.ident, r1.f)
      r3 == fold_attrs(i.attrs, r2.f)
      r4 == Invoke("noop_fold_trait_item_kind", i.node, r3.f)
      r5 == new_span(i.span, r4.f)
  IN  [v |-> <<[id |-> r1.v, ident |-> r2.v, attrs |-> r3.v, node |-> r4.v,
              span |-> r5.v]>>, f |-> r5.f]

noop_fold_impl_item_kind(node, f) ==
  CASE node.k = "Const" ->
         LET r1 == fold_ty(node.ty, f)
             r2 == fold_expr(node.expr, r1.f)
         IN  [v |-> [node EXCEPT !.ty = r1.v, !.expr = r2.v], f |-> r2.f]
    [] node.k = "Method" ->
         LET r1 == Invoke("noop_fold_method_sig", node.sig, f)
             r2 == fold_block(node.body, r1.f)
         IN  [v |-> [node EXCEPT !.sig = r1.v, !.body = r2.v], f |-> r2.f]
    [] node.k = "Type" ->
         LET r == fold_ty(node.ty, f) IN [v |-> [node EXCEPT !.ty = r.v], f |-> r.f]
    [] node.k = "Macro" ->
         LET r == fold_mac(node.mac, f) IN [v |-> [node EXCEPT !.mac = r.v], f |-> r.f]

noop_fold_impl_item(i, f) ==
  LET r1 == new_id(i.id, f)
      r2 == fold_ident(i.ident, r1.f)
      r3 == fold_attrs(i.attrs, r2.f)
      r4 == Invoke("noop_fold_impl_item_kind", i.node, r3.f)
      r5 == new_span(i.span, r4.f)
  IN  [v |-> <<[id |-> r1.v, ident |-> r2.v, attrs |-> r3.v, vis |-> i.vis,
              defaultness |-> i.defaultness, node |-> r4.v, span |-> r5.v]>>, f |-> r5.f]

\* A fold of a module that keeps the first item only of what an item folds to.
first_fold_item(i, f) ==
  LET r == fold_item(i, f)
  IN  [v |-> IF r.v = <<>> THEN <<>> ELSE <<r.v[1]>>, f |-> r.f]

noop_fold_mod_first(m, f) ==
  LET r1 == new_span(m.inner, f)
      r2 == MoveFlatMap(first_fold_item, m.items, r1.f)
  IN  [v |-> [inner |-> r1.v, items |-> r2.v], f |-> r2.f]

\* A fold of modules that panics when the items of a module fold to none.
noop_fold_mod_strict(m, f) ==
  LET r1 == new_span(m.inner, f)
      r2 == MoveFlatMap(fold_item, m.items, r1.f)
      f2 == IF m.items # <<>> /\ r2.v = <<>>
            THEN Panic(r2.f, "fold removed every item of a module")
            ELSE r2.f
  IN  [v |-> [inner |-> r1.v, items |-> r2.v], f |-> f2]

noop_fold_mod(m, f) ==
  LET r1 == new_span(m.inner, f)
      r2 == MoveFlatMap(fold_item, m.items, r1.f)
  IN  [v |-> [inner |-> r1.v, items |-> r2.v], f |-> r2.f]

noop_fold_foreign_item_kind(node, f) ==
  IF node.k = "Fn"
  THEN LET r1 == fold_fn_decl(node.fdec, f)
           r2 == fold_generics(node.generics, r1.f)
       IN  [v |-> [node EXCEPT !.fdec = r1.v, !.generics = r2.v], f |-> r2.f]
  ELSE LET r == fold_ty(node.t, f) IN [v |-> [node EXCEPT !.t = r.v], f |-> r.f]

noop_fold_foreign_item(ni, f) ==
  LET r1 == new_id(ni.id, f)
      r2 == fold_ident(ni.ident, r1.f)
      r3 == fold_attrs(ni.attrs, r2.f)
      r4 == Invoke("noop_fold_foreign_item_kind", ni.node, r3.f)
      r5 == new_span(ni.span, r4.f)
  IN  [v |-> [id |-> r1.v, ident |-> r2.v, attrs |-> r3.v, node |-> r4.v,
            vis |-> ni.vis, span |-> r5.v], f |-> r5.f]

\* ast_util::impl_pretty_name: the name of an impl item, computed from its
\* trait reference (if any) and its self type.
RECURSIVE path_to_string(_)
path_to_string(segments) ==
  IF segments = <<>> THEN ""
  ELSE IF Len(segments) = 1 THEN segments[1].identifier
  ELSE segments[1].identifier \o "::" \o path_to_string(Tail(segments))

ty_to_string(ty) ==
  IF ty.node.k = "Path" THEN path_to_string(ty.node.path.segments) ELSE "_"

impl_pretty_name(maybe_trait, ty) ==
  IF maybe_trait = <<>> THEN ty_to_string(ty)
  ELSE path_to_string(maybe_trait[1].path.segments) \o "." \o ty_to_string(ty)

\* A fold of items that passes the name of the input to fold_ident, whatever
\* the kind of the item.
noop_fold_item_simple_named(i, f) ==
  LET r1 == new_id(i.id, f)
      r2 == fold_item_kind(i.node, r1.f)
      r3 == fold_ident(i.ident, r2.f)
      r4 == fold_attrs(i.attrs, r3.f)
      r5 == new_span(i.span, r4.f)
  IN  [v |-> [id |-> r1.v, node |-> r2.v, ident |-> r3.v, attrs |-> r4.v,
              vis |-> i.vis, span |-> r5.v], f |-> r5.f]

noop_fold_item_simple(i, f) ==
  LET r1 == new_id(i.id, f)
      r2 == fold_item_kind(i.node, r1.f)
      ident == IF r2.v.k = "Impl" THEN impl_pretty_name(r2.v.ifce, r2.v.ty)
               ELSE i.ident
      r3 == fold_ident(ident, r2.f)
      r4 == fold_attrs(i.attrs, r3.f)
      r5 == new_span(i.span, r4.f)
  IN  [v |-> [id |-> r1.v, node |-> r2.v, ident |-> r3.v, attrs |-> r4.v,
              vis |-> i.vis, span |-> r5.v], f |-> r5.f]

noop_fold_item(i, f) ==
  LET r == fold_item_simple(i, f) IN [v |-> <<r.v>>, f |-> r.f]

DUMMY_NODE_ID == -1

special_idents_invalid == ""

\* A fold of exported macros that passes the span to new_span as well.
fold_exported_macro_respanned(def, f) ==
  LET r == new_id(def.id, f)
      s == new_span(def.span, r.f)
  IN  [v |-> [def EXCEPT !.id = r.v, !.span = s.v], f |-> s.f]

fold_exported_macro(def, f) ==
  LET r == new_id(def.id, f) IN [v |-> [def EXCEPT !.id = r.v], f |-> r.f]

\* A fold of crates that takes the module of the one item returned, and
\* panics when there is none.
noop_fold_crate_strict(c, f) ==
  LET r1 == fold_meta_items(c.config, f)
      r2 == expect_one(fold_item([ident |-> special_idents_invalid,
                                  attrs |-> c.attrs,
                                  id    |-> DUMMY_NODE_ID,
                                  vis   |-> "Public",
                                  span  |-> c.span,
                                  node  |-> [k |-> "Mod", m |-> c.module]], r1.f),
                       "a crate cannot expand to more than one item")
      f2 == IF r2.f.failed = "" /\ r2.v.node.k # "Mod"
            THEN Panic(r2.f, "fold converted a module to not a module")
            ELSE r2.f
      r3 == MoveMap(fold_exported_macro, c.exported_macros, f2)
  IN  [v |-> IF r3.f.failed # "" THEN c
             ELSE [module |-> r2.v.node.m, attrs |-> r2.v.attrs, config |-> r1.v,
                   exported_macros |-> r3.v, span |-> r2.v.span], f |-> r3.f]

\* A fold of crates that keeps the attributes of the input when no item is
\* returned for the module item.
noop_fold_crate_kept(c, f) ==
  LET r1 == fold_meta_items(c.config, f)
      r2 == fold_item([ident |-> special_idents_invalid,
                       attrs |-> c.attrs,
                       id    |-> DUMMY_NODE_ID,
                       vis   |-> "Public",
                       span  |-> c.span,
                       node  |-> [k |-> "Mod", m |-> c.module]], r1.f)
      items == r2.v
      f2 == IF items = <<>> THEN r2.f
            ELSE IF Len(items) > 1
                 THEN Panic(r2.f, "a crate cannot expand to more than one item")
            ELSE IF items[1].node.k # "Mod"
                 THEN Panic(r2.f, "fold converted a module to not a module")
            ELSE r2.f
      triple == IF items # <<>> /\ f2.failed = ""
                THEN [module |-> items[1].node.m, attrs |-> items[1].attrs,
                      span |-> items[1].span]
                ELSE [module |-> [inner |-> c.span, items |-> <<>>], attrs |-> c.attrs,
                      span |-> c.span]
      r3 == MoveMap(fold_exported_macro, c.exported_macros, f2)
  IN  [v |-> [module |-> triple.module, attrs |-> triple.attrs, config |-> r1.v,
            exported_macros |-> r3.v, span |-> triple.span], f |-> r3.f]

noop_fold_crate(c, f) ==
  LET r1 == fold_meta_items(c.config, f)
      r2 == fold_item([ident |-> special_idents_invalid,
                       attrs |-> c.attrs,
                       id    |-> DUMMY_NODE_ID,
                       vis   |-> "Public",
                       span  |-> c.span,
                       node  |-> [k |-> "Mod", m |-> c.module]], r1.f)
      items == r2.v
      f2 == IF items = <<>> THEN r2.f
            ELSE IF Len(items) > 1
                 THEN Panic(r2.f, "a crate cannot expand to more than one item")
            ELSE IF items[1].node.k # "Mod"
                 THEN Panic(r2.f, "fold converted a module to not a module")
            ELSE r2.f
      triple == IF items # <<>> /\ f2.failed = ""
                THEN [module |-> items[1].node.m, attrs |-> items[1].attrs,
                      span |-> items[1].span]
                ELSE [module |-> [inner |-> c.span, items |-> <<>>], attrs |-> <<>>,
                      span |-> c.span]
      r3 == MoveMap(fold_exported_macro, c.exported_macros, f2)
  IN  [v |-> [module |-> triple.module, attrs |-> triple.attrs, config |-> r1.v,
            exported_macros |-> r3.v, span |-> triple.span], f |-> r3.f]

(***************************************************************************)
(* The Folder trait.  Each method logs the call and runs its default, the  *)
(* noop_fold_* function of the same name, unless the folder overrides it.  *)
(* After a panic nothing runs any more: every method returns at once.      *)
(*                                                                         *)
(* The overrides are those of the folders the properties speak about:      *)
(*   ident_mode "const"      fold_ident returns K (tests::ToZzIdentFolder) *)
(*   mac_mode "noop"         fold_mac delegates to noop_fold_mac           *)
(*   item_mode "expand"      fold_item deletes the items named n0 and      *)
(*                           expands the items named n2 into two items     *)
(*             "zero"/"two"  fold_item returns no item / two items         *)
(*             "nonmod"      fold_item returns one item, not a module      *)
(*   stmt_mode "zero"/"two"  fold_stmt returns no / two statements         *)
(*   impl_item_mode, trait_item_mode "expand"   as for items               *)
(*   opt_expr_mode "strip"   fold_opt_expr deletes the literal n0          *)
(***************************************************************************)
K == "zz"

Deleted == "n0"

Doubled == "n2"

DoubledCopy == "n2b"

\* A folder that turns one item into two: the item and a renamed copy.
twice_fold_item(i, f) ==
  LET a == Invoke("noop_fold_item", i, f)
      b == Invoke("noop_fold_item", [i EXCEPT !.ident = DoubledCopy], a.f)
  IN  [v |-> a.v \o b.v, f |-> b.f]

expand_fold_item(i, f) ==
  IF i.ident = Deleted THEN [v |-> <<>>, f |-> f]
  ELSE IF i.ident = Doubled THEN twice_fold_item(i, f)
  ELSE Invoke("noop_fold_item", i, f)

nonmod_fold_item(i, f) ==
  LET r == Invoke("noop_fold_item", i, f)
  IN  [v |-> <<[r.v[1] EXCEPT !.node = [k |-> "ExternCrate", opt_name |-> <<>>]]>>, f |-> r.f]

expand_fold_trait_item(i, f) ==
  IF i.ident = Deleted THEN [v |-> <<>>, f |-> f]
  ELSE IF i.ident = Doubled
  THEN LET a == Invoke("noop_fold_trait_item", i, f)
           b == Invoke("noop_fold_trait_item", [i EXCEPT !.ident = DoubledCopy], a.f)
       IN  [v |-> a.v \o b.v, f |-> b.f]
  ELSE Invoke("noop_fold_trait_item", i, f)

expand_fold_impl_item(i, f) ==
  IF i.ident = Deleted THEN [v |-> <<>>, f |-> f]
  ELSE IF i.ident = Doubled
  THEN LET a == Invoke("noop_fold_impl_item", i, f)
           b == Invoke("noop_fold_impl_item", [i EXCEPT !.ident = DoubledCopy], a.f)
       IN  [v |-> a.v \o b.v, f |-> b.f]
  ELSE Invoke("noop_fold_impl_item", i, f)

twice_fold_stmt(s, f) ==
  LET a == Invoke("noop_fold_stmt", s, f)
      b == Invoke("noop_fold_stmt", s, a.f)
  IN  [v |-> a.v \o b.v, f |-> b.f]

strip_fold_opt_expr(e, f) ==
  IF e.node.k = "Lit" /\ e.node.lit = Deleted THEN [v |-> <<>>, f |-> f]
  ELSE Invoke("noop_fold_opt_expr", e, f)

\* The call of the method or function called `name` with the folder f.  For a
\* trait method (and the hooks new_id and new_span) the call is logged and
\* runs the override the folder has for it, or else its default body; the
\* free functions a caller or a large match goes through run as they are.
Invoke(name, x, f) ==
  LET g == Call(name, x, f)
  IN  CASE name = "new_id" ->
           IF f.id_mode = "fresh" /\ f.failed = ""
           THEN [v |-> g.next, f |-> [g EXCEPT !.next = @ + 1]]
           ELSE [v |-> x, f |-> g]
        [] name = "new_span" ->
           IF f.span_mode = "mark" THEN [v |-> x + SpanMark, f |-> g]
           ELSE [v |-> x, f |-> g]
        [] name = "fold_meta_items" ->
           noop_fold_meta_items(x, g)
        [] name = "fold_meta_item" ->
           noop_fold_meta_item(x, g)
        [] name = "fold_view_path" ->
           noop_fold_view_path(x, g)
        [] name = "fold_foreign_item" ->
           noop_fold_foreign_item(x, g)
        [] name = "fold_item_simple" ->
           noop_fold_item_simple(x, g)
        [] name = "fold_struct_field" ->
           noop_fold_struct_field(x, g)
        [] name = "fold_item_kind" ->
           noop_fold_item_kind(x, g)
        [] name = "fold_fn_decl" ->
           noop_fold_fn_decl(x, g)
        [] name = "fold_block" ->
           noop_fold_block(x, g)
        [] name = "fold_arm" ->
           noop_fold_arm(x, g)
        [] name = "fold_pat" ->
           noop_fold_pat(x, g)
        [] name = "fold_expr" ->
           noop_fold_expr(x, g)
        [] name = "fold_exprs" ->
           noop_fold_exprs(x, g)
        [] name = "fold_ty" ->
           noop_fold_ty(x, g)
        [] name = "fold_ty_binding" ->
           noop_fold_ty_binding(x, g)
        [] name = "fold_mod" ->
           noop_fold_mod(x, g)
        [] name = "fold_foreign_mod" ->
           noop_fold_foreign_mod(x, g)
        [] name = "fold_variant" ->
           noop_fold_variant(x, g)
        [] name = "fold_usize" ->
           noop_fold_usize(x, g)
        [] name = "fold_path" ->
           noop_fold_path(x, g)
        [] name = "fold_path_parameters" ->
           noop_fold_path_parameters(x, g)
        [] name = "fold_angle_bracketed_parameter_data" ->
           noop_fold_angle_bracketed_parameter_data(x, g)
        [] name = "fold_parenthesized_parameter_data" ->
           noop_fold_parenthesized_parameter_data(x, g)
        [] name = "fold_local" ->
           noop_fold_local(x, g)
        [] name = "fold_explicit_self" ->
           noop_fold_explicit_self(x, g)
        [] name = "fold_explicit_self_kind" ->
           noop_fold_explicit_self_kind(x, g)
        [] name = "fold_lifetime" ->
           noop_fold_lifetime(x, g)
        [] name = "fold_lifetime_def" ->
           noop_fold_lifetime_def(x, g)
        [] name = "fold_arg" ->
           noop_fold_arg(x, g)
        [] name = "fold_generics" ->
           noop_fold_generics(x, g)
        [] name = "fold_trait_ref" ->
           noop_fold_trait_ref(x, g)
        [] name = "fold_poly_trait_ref" ->
           noop_fold_poly_trait_ref(x, g)
        [] name = "fold_variant_data" ->
           noop_fold_variant_data(x, g)
        [] name = "fold_lifetimes" ->
           noop_fold_lifetimes(x, g)
        [] name = "fold_lifetime_defs" ->
           noop_fold_lifetime_defs(x, g)
        [] name = "fold_ty_param" ->
           noop_fold_ty_param(x, g)
        [] name = "fold_ty_params" ->
           noop_fold_ty_params(x, g)
        [] name = "fold_tt" ->
           noop_fold_tt(x, g)
        [] name = "fold_tts" ->
           noop_fold_tts(x, g)
        [] name = "fold_token" ->
           noop_fold_token(x, g)
        [] name = "fold_interpolated" ->
           noop_fold_interpolated(x, g)
        [] name = "fold_opt_lifetime" ->
           noop_fold_opt_lifetime(x, g)
        [] name = "fold_opt_bounds" ->
           noop_fold_opt_bounds(x, g)
        [] name = "fold_bounds" ->
           noop_fold_bounds(x, g)
        [] name = "fold_ty_param_bound" ->
           noop_fold_ty_param_bound(x, g)
        [] name = "fold_mt" ->
           noop_fold_mt(x, g)
        [] name = "fold_field" ->
           noop_fold_field(x, g)
        [] name = "fold_where_clause" ->
           noop_fold_where_clause(x, g)
        [] name = "fold_where_predicate" ->
           noop_fold_where_predicate(x, g)
        [] name = "fold_crate" ->
           noop_fold_crate(x, g)
        [] name = "fold_decl" ->
           noop_fold_decl(x, g)
        [] name = "fold_attribute" ->
           noop_fold_attribute(x, g)
        [] name = "fold_ident" ->
           IF f.ident_mode = "const" THEN [v |-> K, f |-> g] ELSE noop_fold_ident(x, g)
        [] name = "fold_mac" ->
           IF f.mac_mode = "noop" THEN noop_fold_mac(x, g)
           ELSE [v |-> x, f |-> Panic(g, "fold_mac disabled by default")]
        [] name = "fold_item" ->
           CASE f.item_mode = "expand" -> expand_fold_item(x, g)
             [] f.item_mode = "zero"   -> [v |-> <<>>, f |-> g]
             [] f.item_mode = "two"    -> twice_fold_item(x, g)
             [] f.item_mode = "nonmod" -> nonmod_fold_item(x, g)
             [] OTHER                  -> noop_fold_item(x, g)
        [] name = "fold_trait_item" ->
           IF f.trait_item_mode = "expand" THEN expand_fold_trait_item(x, g)
           ELSE noop_fold_trait_item(x, g)
        [] name = "fold_impl_item" ->
           IF f.impl_item_mode = "expand" THEN expand_fold_impl_item(x, g)
           ELSE noop_fold_impl_item(x, g)
        [] name = "fold_stmt" ->
           CASE f.stmt_mode = "zero" -> [v |-> <<>>, f |-> g]
             [] f.stmt_mode = "two"  -> twice_fold_stmt(x, g)
             [] OTHER                -> noop_fold_stmt(x, g)
        [] name = "fold_opt_expr" ->
           IF f.opt_expr_mode = "strip" THEN strip_fold_opt_expr(x, g)
           ELSE noop_fold_opt_expr(x, g)
        [] name = "noop_fold_ty_kind" ->
           noop_fold_ty_kind(x, f)
        [] name = "noop_fold_meta_item_kind" ->
           noop_fold_meta_item_kind(x, f)
        [] name = "noop_fold_pat_kind" ->
           noop_fold_pat_kind(x, f)
        [] name = "noop_fold_expr_kind" ->
           noop_fold_expr_kind(x, f)
        [] name = "noop_fold_view_path_kind" ->
           noop_fold_view_path_kind(x, f)
        [] name = "noop_fold_method_sig" ->
           noop_fold_method_sig(x, f)
        [] name = "noop_fold_trait_item_kind" ->
           noop_fold_trait_item_kind(x, f)
        [] name = "noop_fold_impl_item_kind" ->
           noop_fold_impl_item_kind(x, f)
        [] name = "noop_fold_foreign_item_kind" ->
           noop_fold_foreign_item_kind(x, f)
        [] name = "noop_fold_mac" ->
           noop_fold_mac(x, f)
        [] name = "noop_fold_mod" ->
           noop_fold_mod(x, f)
        [] name = "noop_fold_block" ->
           noop_fold_block(x, f)
        [] name = "noop_fold_item_kind" ->
           noop_fold_item_kind(x, f)
        [] name = "noop_fold_interpolated" ->
           noop_fold_interpolated(x, f)
        [] name = "noop_fold_token" ->
           noop_fold_token(x, f)
      [] name = "noop_fold_impl_item" ->
           noop_fold_impl_item(x, f)
      [] name = "noop_fold_item" ->
           noop_fold_item(x, f)
      [] name = "noop_fold_opt_expr" ->
           noop_fold_opt_expr(x, f)
      [] name = "noop_fold_stmt" ->
           noop_fold_stmt(x, f)
      [] name = "noop_fold_trait_item" ->
           noop_fold_trait_item(x, f)

fold_meta_items(x, f) == Invoke("fold_meta_items", x, f)

fold_meta_item(x, f) == Invoke("fold_meta_item", x, f)

fold_view_path(x, f) == Invoke("fold_view_path", x, f)

fold_foreign_item(x, f) == Invoke("fold_foreign_item", x, f)

fold_item_simple(x, f) == Invoke("fold_item_simple", x, f)

fold_struct_field(x, f) == Invoke("fold_struct_field", x, f)

fold_item_kind(x, f) == Invoke("fold_item_kind", x, f)

fold_fn_decl(x, f) == Invoke("fold_fn_decl", x, f)

fold_block(x, f) == Invoke("fold_block", x, f)

fold_arm(x, f) == Invoke("fold_arm", x, f)

fold_pat(x, f) == Invoke("fold_pat", x, f)

fold_expr(x, f) == Invoke("fold_expr", x, f)

fold_exprs(x, f) == Invoke("fold_exprs", x, f)

fold_ty(x, f) == Invoke("fold_ty", x, f)

fold_ty_binding(x, f) == Invoke("fold_ty_binding", x, f)

fold_mod(x, f) == Invoke("fold_mod", x, f)

fold_foreign_mod(x, f) == Invoke("fold_foreign_mod", x, f)

fold_variant(x, f) == Invoke("fold_variant", x, f)

fold_usize(x, f) == Invoke("fold_usize", x, f)

fold_path(x, f) == Invoke("fold_path", x, f)

fold_path_parameters(x, f) == Invoke("fold_path_parameters", x, f)

fold_angle_bracketed_parameter_data(x, f) == Invoke("fold_angle_bracketed_parameter_data", x, f)

fold_parenthesized_parameter_data(x, f) == Invoke("fold_parenthesized_parameter_data", x, f)

fold_local(x, f) == Invoke("fold_local", x, f)

fold_explicit_self(x, f) == Invoke("fold_explicit_self", x, f)

fold_explicit_self_kind(x, f) == Invoke("fold_explicit_self_kind", x, f)

fold_lifetime(x, f) == Invoke("fold_lifetime", x, f)

fold_lifetime_def(x, f) == Invoke("fold_lifetime_def", x, f)

fold_arg(x, f) == Invoke("fold_arg", x, f)

fold_generics(x, f) == Invoke("fold_generics", x, f)

fold_trait_ref(x, f) == Invoke("fold_trait_ref", x, f)

fold_poly_trait_ref(x, f) == Invoke("fold_poly_trait_ref", x, f)

fold_variant_data(x, f) == Invoke("fold_variant_data", x, f)

fold_lifetimes(x, f) == Invoke("fold_lifetimes", x, f)

fold_lifetime_defs(x, f) == Invoke("fold_lifetime_defs", x, f)

fold_ty_param(x, f) == Invoke("fold_ty_param", x, f)

fold_ty_params(x, f) == Invoke("fold_ty_params", x, f)

\* A default for fold_tt that returns the token tree as it is.
fold_tt_shallow(x, f) == [v |-> x, f |-> Call("fold_tt", x, f)]

fold_tt(x, f) == Invoke("fold_tt", x, f)

fold_tts(x, f) == Invoke("fold_tts", x, f)

fold_token(x, f) == Invoke("fold_token", x, f)

fold_interpolated(x, f) == Invoke("fold_interpolated", x, f)

fold_opt_lifetime(x, f) == Invoke("fold_opt_lifetime", x, f)

fold_opt_bounds(x, f) == Invoke("fold_opt_bounds", x, f)

fold_bounds(x, f) == Invoke("fold_bounds", x, f)

fold_ty_param_bound(x, f) == Invoke("fold_ty_param_bound", x, f)

fold_mt(x, f) == Invoke("fold_mt", x, f)

fold_field(x, f) == Invoke("fold_field", x, f)

fold_where_clause(x, f) == Invoke("fold_where_clause", x, f)

fold_where_predicate(x, f) == Invoke("fold_where_predicate", x, f)

fold_crate(x, f) == Invoke("fold_crate", x, f)

fold_decl(x, f) == Invoke("fold_decl", x, f)

fold_attribute(x, f) == Invoke("fold_attribute", x, f)

fold_ident(i, f) == Invoke("fold_ident", i, f)

\* A trait whose default for fold_mac is the fold the comment suggests.
fold_mac_enabled(mac, f) == noop_fold_mac(mac, Call("fold_mac", mac, f))

fold_mac(mac, f) == Invoke("fold_mac", mac, f)

fold_item(i, f) == Invoke("fold_item", i, f)

fold_trait_item(i, f) == Invoke("fold_trait_item", i, f)

fold_impl_item(i, f) == Invoke("fold_impl_item", i, f)

fold_stmt(s, f) == Invoke("fold_stmt", s, f)

fold_opt_expr(e, f) == Invoke("fold_opt_expr", e, f)

(***************************************************************************)
(* Input trees.  Constructors for the node kinds, then a catalogue of      *)
(* items that between them hold every variant the fold distinguishes.  A   *)
(* node's id and its span are the number given to its constructor.         *)
(***************************************************************************)
NoParams ==
  [k |-> "AngleBracketed",
   data |-> [lifetimes |-> <<>>, types |-> <<>>, bindings |-> <<>>]]

Seg(n) == [identifier |-> n, parameters |-> NoParams]

Path1(n, i) == [global |-> FALSE, segments |-> <<Seg(n)>>, span |-> i]

Path2(n, m, i) == [global |-> TRUE, segments |-> <<Seg(n), Seg(m)>>, span |-> i]

Ty(node, i) == [id |-> i, node |-> node, span |-> i]

TyPath(n, i) == Ty([k |-> "Path", qself |-> <<>>, path |-> Path1(n, i)], i)

Ex(node, i) == [id |-> i, node |-> node, span |-> i, attrs |-> <<>>]

ExPath(n, i) == Ex([k |-> "Path", qself |-> <<>>, path |-> Path1(n, i)], i)

ExLit(l, i) == Ex([k |-> "Lit", lit |-> l], i)

Pat(node, i) == [id |-> i, node |-> node, span |-> i]

PatIdent(n, i) ==
  Pat([k |-> "Ident", binding_mode |-> "ByValue", pth1 |-> [leaf |-> n, span |-> i],
       sub |-> <<>>], i)

Lt(n, i) == [id |-> i, name |-> n, span |-> i]

MetaWord(n, i) == [node |-> [k |-> "Word", mi_name |-> n], span |-> i]

Attr(n, i) ==
  [node |-> [id |-> i, style |-> "Outer", value |-> MetaWord(n, i),
             is_sugared_doc |-> FALSE],
   span |-> i]

NoGenerics ==
  [ty_params |-> <<>>, lifetimes |-> <<>>,
   where_clause |-> [id |-> 0, predicates |-> <<>>]]

Blk(stmts, expr, i) ==
  [id |-> i, stmts |-> stmts, expr |-> expr, rules |-> "Default", span |-> i]

StSemi(e, i) == [node |-> [k |-> "Semi", e |-> e, id |-> i], span |-> i]

StExpr(e, i) == [node |-> [k |-> "Expr", e |-> e, id |-> i], span |-> i]

StItem(it, i) ==
  [node |-> [k |-> "Decl", d |-> [node |-> [k |-> "Item", it |-> it], span |-> i],
             id |-> i],
   span |-> i]

StLocal(l, i) ==
  [node |-> [k |-> "Decl", d |-> [node |-> [k |-> "Local", l |-> l], span |-> i],
             id |-> i],
   span |-> i]

StMac(mac, i) ==
  [node |-> [k |-> "Mac", mac |-> mac, semi |-> "Semicolon", attrs |-> <<>>],
   span |-> i]

Item(n, node, i) ==
  [id |-> i, ident |-> n, attrs |-> <<>>, node |-> node, vis |-> "Inherited",
   span |-> i]

Tok(t, i) == [k |-> "Token", span |-> i, tok |-> t]

TIdent(n) == [k |-> "Ident", ident |-> n, style |-> "Plain"]

TLifetime(n) == [k |-> "Lifetime", ident |-> n]

TSubstNt(n) == [k |-> "SubstNt", ident |-> n, namep |-> "Plain"]

TMatchNt(n, fr) ==
  [k |-> "MatchNt", name |-> n, frag |-> fr, namep |-> "Plain", kindp |-> "ModName"]

TComma == [k |-> "Comma"]

TLiteral(l) == [k |-> "Literal", lit |-> l]

TInterpolated(nt) == [k |-> "Interpolated", nt |-> nt]

Delimited(tts, i) ==
  [k |-> "Delimited", span |-> i,
   delimed |-> [delim |-> "Paren", open_span |-> i + 1, tts |-> tts,
                close_span |-> i + 2]]

Sequence(tts, sep, i) ==
  [k |-> "Sequence", span |-> i,
   seq |-> [tts |-> tts, separator |-> sep, op |-> "OneOrMore", num_captures |-> 2]]

\* The path of an invocation has a span of its own.
Mac(n, tts, i) ==
  [node |-> [path |-> Path1(n, 2000 + i), tts |-> tts, ctxt |-> 7], span |-> i]

FnDecl(inputs, output) == [inputs |-> inputs, output |-> output, variadic |-> FALSE]

Arg(n, t, i) == [id |-> i, pat |-> PatIdent(n, i + 1), ty |-> TyPath(t, i + 2)]

RetDefault(i) == [k |-> "Default", span |-> i]

Fn(decl, generics, body) ==
  [k |-> "Fn", decl |-> decl, unsafety |-> "Normal", constness |-> "NotConst",
   abi |-> "Rust", generics |-> generics, body |-> body]

TraitRef(n, i) == [path |-> Path1(n, i), ref_id |-> i]

PolyTraitRef(n, i) ==
  [bound_lifetimes |-> <<>>, trait_ref |-> TraitRef(n, i), span |-> i]

TraitBound(n, i) ==
  [k |-> "TraitTyParamBound", ty |-> PolyTraitRef(n, i), modifier |-> "None"]

RegionBound(n, i) == [k |-> "RegionTyParamBound", lifetime |-> Lt(n, i)]

MethodSig(decl, i) ==
  [generics |-> NoGenerics, abi |-> "Rust",
   explicit_self |-> [node |-> [k |-> "Static"], span |-> i],
   unsafety |-> "Normal", constness |-> "NotConst", decl |-> decl]

StructField(n, t, i) ==
  [node |-> [id |-> i, kind |-> [k |-> "NamedField", ident |-> n, vis |-> "Public"],
             ty |-> TyPath(t, i + 1), attrs |-> <<>>],
   span |-> i]

\* A plain function `fn n() { }`.
SimpleFn(n, i) ==
  Item(n, Fn(FnDecl(<<>>, RetDefault(i + 1)), NoGenerics, Blk(<<>>, <<>>, i + 2)), i)

\* #[a] mod b { fn c(d: e, f: g) { h!(i, j, k); l; m } }
\* (the input of tests::ident_transformation)
ItTestMod ==
  [Item("b",
        [k |-> "Mod",
         m |-> [inner |-> 11,
                items |-> <<
                  Item("c",
                       Fn(FnDecl(<<Arg("d", "e", 20), Arg("f", "g", 23)>>, RetDefault(26)),
                          NoGenerics,
                          Blk(<<StMac(Mac("h", <<Tok(TIdent("i"), 31), Tok(TComma, 32),
                                                 Tok(TIdent("j"), 33), Tok(TComma, 34),
                                                 Tok(TIdent("k"), 35)>>, 30), 36),
                                StSemi(ExPath("l", 37), 38)>>,
                              <<ExPath("m", 39)>>, 27)),
                       12)>>]],
        10) EXCEPT !.attrs = <<Attr("a", 9)>>]

\* macro_rules! a { (b $c:expr $(d $e:token)f+ => (g $(d $d $e)+)) }
\* (the input of tests::ident_transformation_in_defs)
ItMacDef ==
  Item("a",
       [k |-> "Mac",
        m |-> Mac("macro_rules",
                  <<Delimited(<<Tok(TIdent("b"), 41), Tok(TMatchNt("c", "expr"), 42),
                                Sequence(<<Tok(TIdent("d"), 43),
                                           Tok(TMatchNt("e", "token"), 44)>>,
                                         <<TIdent("f")>>, 45),
                                Tok([k |-> "FatArrow"], 46),
                                Delimited(<<Tok(TIdent("g"), 47),
                                            Sequence(<<Tok(TIdent("d"), 48),
                                                       Tok(TSubstNt("d"), 49),
                                                       Tok(TSubstNt("e"), 50)>>,
                                                     <<>>, 51)>>, 52)>>, 55)>>,
                  40)],
       40)

\* fn g<'l: 'm, t: 'l + tr = dflt>(x: &'l u) -> r
\*   where for<'w> bt: tr, 'l: 'm, p = q { }
ItGenericFn ==
  Item("g",
       Fn(FnDecl(<<[id |-> 60, pat |-> PatIdent("x", 61),
                    ty |-> Ty([k |-> "Rptr", region |-> <<Lt("l", 62)>>,
                               mt |-> [ty |-> TyPath("u", 63), mutbl |-> "Immutable"]],
                              64)]>>,
                 [k |-> "Ty", ty |-> TyPath("r", 65)]),
          [ty_params |-> <<[id |-> 66, ident |-> "t",
                            bounds |-> <<RegionBound("l", 67), TraitBound("tr", 68)>>,
                            default |-> <<TyPath("dflt", 69)>>, span |-> 66]>>,
           lifetimes |-> <<[lifetime |-> Lt("l", 70), bounds |-> <<Lt("m", 71)>>]>>,
           where_clause |->
             [id |-> 72,
              predicates |-> <<
                [k |-> "BoundPredicate",
                 bound_lifetimes |-> <<[lifetime |-> Lt("w", 73), bounds |-> <<>>]>>,
                 bounded_ty |-> TyPath("bt", 74), bounds |-> <<TraitBound("tr", 75)>>,
                 span |-> 76],
                [k |-> "RegionPredicate", lifetime |-> Lt("l", 77),
                 bounds |-> <<Lt("m", 78)>>, span |-> 79],
                [k |-> "EqPredicate", id |-> 80, path |-> Path1("p", 81),
                 ty |-> TyPath("q", 82), span |-> 83]>>]],
          Blk(<<>>, <<>>, 84)),
       59)

\* type n1 = ( _, [a], *const a, fn(a), (a), <q>::p<'l, a, b = c>, p(a) -> r,
\*             a + tr, [a; 3], typeof(e), for<'l> tr );
AllTypes ==
  <<Ty([k |-> "Infer"], 101),
    Ty([k |-> "Vec", ty |-> TyPath("a", 102)], 103),
    Ty([k |-> "Ptr", mt |-> [ty |-> TyPath("a", 104), mutbl |-> "Immutable"]], 105),
    Ty([k |-> "BareFn",
        f |-> [lifetimes |-> <<[lifetime |-> Lt("l", 106), bounds |-> <<>>]>>,
               unsafety |-> "Normal", abi |-> "Rust",
               decl |-> FnDecl(<<Arg("x", "a", 107)>>, [k |-> "None", span |-> 110])]],
       111),
    Ty([k |-> "Paren", ty |-> TyPath("a", 112)], 113),
    Ty([k |-> "Path",
        qself |-> <<[ty |-> TyPath("q", 114), position |-> 1]>>,
        path |-> [global |-> FALSE,
                  segments |-> <<
                    [identifier |-> "p",
                     parameters |->
                       [k |-> "AngleBracketed",
                        data |-> [lifetimes |-> <<Lt("l", 115)>>,
                                  types |-> <<TyPath("a", 116)>>,
                                  bindings |-> <<[id |-> 117, ident |-> "b",
                                                  ty |-> TyPath("c", 118),
                                                  span |-> 117]>>]]]>>,
                  span |-> 119]], 120),
    Ty([k |-> "Path", qself |-> <<>>,
        path |-> [global |-> FALSE,
                  segments |-> <<
                    [identifier |-> "p",
                     parameters |->
                       [k |-> "Parenthesized",
                        data |-> [inputs |-> <<TyPath("a", 121)>>,
                                  opt_output |-> <<TyPath("r", 122)>>,
                                  span |-> 123]]]>>,
                  span |-> 124]], 125),
    Ty([k |-> "ObjectSum", ty |-> TyPath("a", 126), bounds |-> <<TraitBound("tr", 127)>>],
       128),
    Ty([k |-> "FixedLengthVec", ty |-> TyPath("a", 129), e |-> ExLit("3", 130)], 131),
    Ty([k |-> "Typeof", e |-> ExPath("e", 132)], 133),
    Ty([k |-> "PolyTraitRef",
        bounds |-> <<[k |-> "TraitTyParamBound",
                      ty |-> [bound_lifetimes |-> <<[lifetime |-> Lt("l", 134),
                                                     bounds |-> <<>>]>>,
                              trait_ref |-> TraitRef("tr", 135), span |-> 136],
                      modifier |-> "None"]>>], 137)>>

ItTypes ==
  Item("n1", [k |-> "Ty", t |-> Ty([k |-> "Tup", tys |-> AllTypes], 100),
              generics |-> NoGenerics], 99)

\* type n1 = m!(i);
ItTyMac ==
  Item("n1", [k |-> "Ty",
              t |-> Ty([k |-> "Mac", mac |-> Mac("m", <<Tok(TIdent("i"), 141)>>, 142)],
                       143),
              generics |-> NoGenerics], 140)

\* use a::b as c;   use a::*;   use a::{x as y, self};
ItUseSimple ==
  Item("", [k |-> "Use",
            view_path |-> [node |-> [k |-> "ViewPathSimple", ident |-> "c",
                                     path |-> Path2("a", "b", 151)],
                           span |-> 152]], 150)

ItUseGlob ==
  Item("", [k |-> "Use",
            view_path |-> [node |-> [k |-> "ViewPathGlob", path |-> Path1("a", 154)],
                           span |-> 155]], 153)

ItUseList ==
  Item("", [k |-> "Use",
            view_path |->
              [node |-> [k |-> "ViewPathList", path |-> Path1("a", 157),
                         path_list_idents |-> <<
                           [node |-> [k |-> "Ident", id |-> 158, name |-> "x",
                                      rename |-> <<"y">>],
                            span |-> 158],
                           [node |-> [k |-> "Mod", id |-> 159, rename |-> <<>>],
                            span |-> 159]>>],
               span |-> 160]], 156)

\* static n1: a = 1;   const n1: a = b;   extern crate n1;
ItStatic ==
  Item("n1", [k |-> "Static", t |-> TyPath("a", 162), mutbl |-> "Immutable",
              e |-> ExLit("1", 163)], 161)

ItConst ==
  Item("n1", [k |-> "Const", t |-> TyPath("a", 165), e |-> ExPath("b", 166)], 164)

ItExternCrate == Item("n1", [k |-> "ExternCrate", opt_name |-> <<>>], 167)

\* mod n1 { fn n0() {}  fn n1() {}  fn n2() {} }
ItNestedMod ==
  Item("n1", [k |-> "Mod",
              m |-> [inner |-> 171,
                     items |-> <<SimpleFn("n0", 172), SimpleFn("n1", 175),
                                 SimpleFn("n2", 178)>>]], 170)

\* extern { fn ff(x: a);  static fs: a; }
ItForeignMod ==
  Item("", [k |-> "ForeignMod",
            nm |-> [abi |-> "C",
                    items |-> <<
                      [id |-> 182, ident |-> "ff", attrs |-> <<Attr("fa", 183)>>,
                       node |-> [k |-> "Fn",
                                 fdec |-> FnDecl(<<Arg("x", "a", 184)>>, RetDefault(187)),
                                 generics |-> NoGenerics],
                       vis |-> "Public", span |-> 182],
                      [id |-> 188, ident |-> "fs", attrs |-> <<>>,
                       node |-> [k |-> "Static", t |-> TyPath("a", 189), mutbl |-> "Immutable"],
                       vis |-> "Public", span |-> 188]>>]], 181)

\* enum n1 { va { fa: a }, vb(b), vc = 1 }
ItEnum ==
  Item("n1",
       [k |-> "Enum",
        enum_definition |->
          [variants |-> <<
             [node |-> [name |-> "va", attrs |-> <<Attr("at", 191)>>,
                        data |-> [k |-> "Struct", fields |-> <<StructField("fa", "a", 192)>>,
                                  id |-> 194],
                        disr_expr |-> <<>>],
              span |-> 195],
             [node |-> [name |-> "vb", attrs |-> <<>>,
                        data |-> [k |-> "Tuple",
                                  fields |-> <<
                                    [node |-> [id |-> 196,
                                               kind |-> [k |-> "UnnamedField",
                                                         vis |-> "Public"],
                                               ty |-> TyPath("b", 197), attrs |-> <<>>],
                                     span |-> 196]>>,
                                  id |-> 198],
                        disr_expr |-> <<>>],
              span |-> 199],
             [node |-> [name |-> "vc", attrs |-> <<>>,
                        data |-> [k |-> "Unit", id |-> 200],
                        disr_expr |-> <<ExLit("1", 201)>>],
              span |-> 202]>>],
        generics |-> NoGenerics], 190)

\* struct n1 { fa: a }    impl tr for .. {}
ItStruct ==
  Item("n1", [k |-> "Struct",
              struct_def |-> [k |-> "Struct", fields |-> <<StructField("fa", "a", 204)>>,
                              id |-> 206],
              generics |-> NoGenerics], 203)

ItDefaultImpl ==
  Item("n1", [k |-> "DefaultImpl", unsafety |-> "Normal",
              trait_ref |-> TraitRef("tr", 208)], 207)

\* The items of an impl or a trait named so that an expanding folder deletes
\* the first, keeps the second and doubles the third.
ImplConst(n, i) ==
  [id |-> i, ident |-> n, attrs |-> <<>>, vis |-> "Public", defaultness |-> "Final",
   node |-> [k |-> "Const", ty |-> TyPath("a", i + 1), expr |-> ExLit("1", i + 2)],
   span |-> i]

ImplMethod(n, i) ==
  [id |-> i, ident |-> n, attrs |-> <<Attr("ia", i)>>, vis |-> "Public",
   defaultness |-> "Final",
   node |-> [k |-> "Method",
             sig |-> MethodSig(FnDecl(<<Arg("x", "a", i + 1)>>, RetDefault(i + 4)), i + 5),
             body |-> Blk(<<>>, <<ExPath("x", i + 6)>>, i + 7)],
   span |-> i]

ImplType(n, i) ==
  [id |-> i, ident |-> n, attrs |-> <<>>, vis |-> "Public", defaultness |-> "Final",
   node |-> [k |-> "Type", ty |-> TyPath("a", i + 1)], span |-> i]

ImplMacro(n, i) ==
  [id |-> i, ident |-> n, attrs |-> <<>>, vis |-> "Public", defaultness |-> "Final",
   node |-> [k |-> "Macro", mac |-> Mac("m", <<Tok(TIdent("i"), i + 1)>>, i + 2)],
   span |-> i]

Impl(ifce, ty, impl_items, i) ==
  Item(impl_pretty_name(ifce, ty),
       [k |-> "Impl", unsafety |-> "Normal", polarity |-> "Positive",
        generics |-> NoGenerics, ifce |-> ifce, ty |-> ty, impl_items |-> impl_items], i)

\* impl tr for u { const n0..; fn n1(x: a) { x }  type n2 = a; }   impl u { }
ItImpl ==
  Impl(<<TraitRef("tr", 211)>>, TyPath("u", 212),
       <<ImplConst("n0", 213), ImplMethod("n1", 216), ImplType("n2", 224)>>, 210)

ItInherentImpl == Impl(<<>>, TyPath("u", 227), <<>>, 226)

\* impl u { m!(i); }
ItImplMac == Impl(<<>>, TyPath("u", 229), <<ImplMacro("n1", 230)>>, 228)

TraitConst(n, i) ==
  [id |-> i, ident |-> n, attrs |-> <<>>,
   node |-> [k |-> "Const", ty |-> TyPath("a", i + 1), default |-> <<ExLit("1", i + 2)>>],
   span |-> i]

TraitMethod(n, self, body, i) ==
  [id |-> i, ident |-> n, attrs |-> <<Attr("ta", i)>>,
   node |-> [k |-> "Method",
             sig |-> [MethodSig(FnDecl(<<>>, RetDefault(i + 1)), i + 2)
                        EXCEPT !.explicit_self = [node |-> self, span |-> i + 2]],
             opt_body |-> body],
   span |-> i]

TraitType(n, i) ==
  [id |-> i, ident |-> n, attrs |-> <<>>,
   node |-> [k |-> "Type", bounds |-> <<TraitBound("tr", i + 1)>>,
             default |-> <<TyPath("a", i + 2)>>],
   span |-> i]

\* trait n1: tr { const n0: a = 1;  fn n1(&'l self);  type n2: tr = a;
\*                fn n3(self: a) { }  fn n4(self); }
ItTrait ==
  Item("n1",
       [k |-> "Trait", unsafety |-> "Normal", generics |-> NoGenerics,
        bounds |-> <<TraitBound("tr", 241)>>,
        items |-> <<
          TraitConst("n0", 242),
          TraitMethod("n1", [k |-> "Region", opt_lifetime |-> <<Lt("l", 245)>>,
                             mutbl |-> "Immutable", ident |-> "self"], <<>>, 246),
          TraitType("n2", 249),
          TraitMethod("n3", [k |-> "Explicit", ty |-> TyPath("a", 252), ident |-> "self"],
                      <<Blk(<<>>, <<>>, 253)>>, 254),
          TraitMethod("n4", [k |-> "Value", ident |-> "self"], <<>>, 257)>>], 240)

\* The patterns:  _  x @ y  1  ts(a)  ts(..)  p  <q>::p  s { fp: a, .. }  (a,)
\*                box a  &a  1 ... 2  [a, b.., c]
AllPats ==
  <<Pat([k |-> "Wild"], 301),
    Pat([k |-> "Ident", binding_mode |-> "ByRef", pth1 |-> [leaf |-> "x", span |-> 302],
         sub |-> <<PatIdent("y", 303)>>], 304),
    Pat([k |-> "Lit", e |-> ExLit("1", 305)], 306),
    Pat([k |-> "TupleStruct", pth |-> Path1("ts", 307),
         opt_pats |-> <<<<PatIdent("a", 308)>>>>], 309),
    Pat([k |-> "TupleStruct", pth |-> Path1("ts", 310), opt_pats |-> <<>>], 311),
    Pat([k |-> "Path", pth |-> Path1("p", 312)], 313),
    Pat([k |-> "QPath", qs |-> [ty |-> TyPath("q", 314), position |-> 1],
         pth |-> Path1("p", 315)], 316),
    Pat([k |-> "Struct", pth |-> Path1("s", 317),
         fields |-> <<[node |-> [ident |-> "fp", pat |-> PatIdent("a", 318),
                                 is_shorthand |-> FALSE],
                       span |-> 319]>>,
         etc |-> TRUE], 320),
    Pat([k |-> "Tup", elts |-> <<PatIdent("a", 321)>>], 322),
    Pat([k |-> "Box", p |-> PatIdent("a", 323)], 324),
    Pat([k |-> "Ref", p |-> PatIdent("a", 325), mutbl |-> "Immutable"], 326),
    Pat([k |-> "Range", e1 |-> ExLit("1", 327), e2 |-> ExLit("2", 328)], 329),
    Pat([k |-> "Vec", before |-> <<PatIdent("a", 330)>>, slice |-> <<PatIdent("b", 331)>>,
         after |-> <<PatIdent("c", 332)>>], 333)>>

Arm(pats, guard, body) == [attrs |-> <<Attr("aa", 334)>>, pats |-> pats, guard |-> guard,
                           body |-> body]

\* fn n1() { match x { <all patterns> if g => y } }
ItPats ==
  Item("n1",
       Fn(FnDecl(<<>>, RetDefault(335)), NoGenerics,
          Blk(<<>>,
              <<Ex([k |-> "Match", e |-> ExPath("x", 336),
                    arms |-> <<Arm(AllPats, <<ExPath("g", 337)>>, ExPath("y", 338))>>],
                   339)>>, 340)), 300)

\* fn n1() { match x { m!(i) => y } }
ItPatMac ==
  Item("n1",
       Fn(FnDecl(<<>>, RetDefault(342)), NoGenerics,
          Blk(<<>>,
              <<Ex([k |-> "Match", e |-> ExPath("x", 343),
                    arms |-> <<Arm(<<Pat([k |-> "Mac",
                                          mac |-> Mac("m", <<Tok(TIdent("i"), 344)>>, 345)],
                                         346)>>,
                                   <<>>, ExPath("y", 347))>>], 348)>>, 349)), 341)

\* The expressions, one of every kind but a macro invocation.
AllExprs ==
  <<Ex([k |-> "Box", e |-> ExPath("a", 401)], 402),
    Ex([k |-> "Unary", op |-> "Neg", e |-> ExPath("a", 403)], 404),
    Ex([k |-> "AddrOf", mutbl |-> "Immutable", e |-> ExPath("a", 405)], 406),
    Ex([k |-> "Paren", e |-> ExPath("a", 407)], 408),
    Ex([k |-> "Try", e |-> ExPath("a", 409)], 410),
    Ex([k |-> "InPlace", e1 |-> ExPath("a", 411), e2 |-> ExPath("b", 412)], 413),
    Ex([k |-> "Repeat", e1 |-> ExPath("a", 414), e2 |-> ExLit("2", 415)], 416),
    Ex([k |-> "Binary", op |-> "Add", e1 |-> ExPath("a", 417), e2 |-> ExPath("b", 418)],
       419),
    Ex([k |-> "Assign", e1 |-> ExPath("a", 420), e2 |-> ExPath("b", 421)], 422),
    Ex([k |-> "AssignOp", op |-> "Add", e1 |-> ExPath("a", 423), e2 |-> ExPath("b", 424)],
       425),
    Ex([k |-> "Index", e1 |-> ExPath("a", 426), e2 |-> ExPath("b", 427)], 428),
    Ex([k |-> "Vec", exprs |-> <<ExPath("a", 429), ExLit("n0", 430)>>], 431),
    Ex([k |-> "Tup", exprs |-> <<ExLit("n0", 432), ExPath("b", 433)>>], 434),
    Ex([k |-> "Call", f |-> ExPath("fun", 435),
        args |-> <<ExPath("a", 436), ExLit("n0", 437), ExPath("b", 438)>>], 439),
    Ex([k |-> "MethodCall", i |-> [leaf |-> "meth", span |-> 440],
        tps |-> <<TyPath("t", 441)>>, args |-> <<ExPath("a", 442), ExLit("n0", 443)>>],
       444),
    Ex([k |-> "Cast", e |-> ExPath("a", 445), ty |-> TyPath("t", 446)], 447),
    Ex([k |-> "Type", e |-> ExPath("a", 448), ty |-> TyPath("t", 449)], 450),
    Ex([k |-> "If", cond |-> ExPath("c", 451), tr |-> Blk(<<>>, <<ExPath("a", 452)>>, 453),
        fl |-> <<ExPath("b", 454)>>], 455),
    Ex([k |-> "IfLet", pat |-> PatIdent("p", 456), e |-> ExPath("a", 457),
        tr |-> Blk(<<>>, <<>>, 458), fl |-> <<>>], 459),
    Ex([k |-> "While", cond |-> ExPath("c", 460), body |-> Blk(<<>>, <<>>, 461),
        opt_ident |-> <<"lw">>], 462),
    Ex([k |-> "WhileLet", pat |-> PatIdent("p", 463), e |-> ExPath("a", 464),
        body |-> Blk(<<>>, <<>>, 465), opt_ident |-> <<>>], 466),
    Ex([k |-> "ForLoop", pat |-> PatIdent("p", 467), e |-> ExPath("a", 468),
        body |-> Blk(<<>>, <<>>, 469), opt_ident |-> <<"lf">>], 470),
    Ex([k |-> "Loop",
        body |-> Blk(<<StSemi(Ex([k |-> "Break", label |-> <<[leaf |-> "ll", span |-> 471]>>],
                                 472), 473),
                       StSemi(Ex([k |-> "Again", label |-> <<[leaf |-> "ll", span |-> 474]>>],
                                 475), 476),
                       StSemi(Ex([k |-> "Break", label |-> <<>>], 477), 478)>>,
                     <<>>, 479),
        opt_ident |-> <<"ll">>], 480),
    Ex([k |-> "Closure", capture_clause |-> "CaptureByRef",
        decl |-> FnDecl(<<Arg("x", "a", 481)>>, RetDefault(484)),
        body |-> Blk(<<>>, <<ExPath("x", 485)>>, 486)], 487),
    Ex([k |-> "Block", blk |-> Blk(<<StExpr(ExPath("a", 488), 489)>>, <<>>, 490)], 491),
    Ex([k |-> "Field", e |-> ExPath("a", 492), sident |-> [leaf |-> "fld", span |-> 493]],
       494),
    Ex([k |-> "TupField", e |-> ExPath("a", 495), idx |-> [n |-> 0, span |-> 496]], 497),
    Ex([k |-> "Range", start |-> <<ExLit("1", 498)>>, end |-> <<>>, lim |-> "HalfOpen"],
       499),
    Ex([k |-> "Path", qself |-> <<[ty |-> TyPath("q", 500), position |-> 1]>>,
        path |-> Path2("a", "b", 501)], 502),
    Ex([k |-> "Ret", opt_e |-> <<ExPath("a", 503)>>], 504),
    Ex([k |-> "Ret", opt_e |-> <<>>], 505),
    Ex([k |-> "InlineAsm",
        inputs |-> <<[constraint |-> "r", expr |-> ExPath("a", 506)]>>,
        outputs |-> <<[constraint |-> "=r", expr |-> ExPath("b", 507), is_rw |-> FALSE,
                       is_indirect |-> FALSE]>>,
        asm |-> "nop", volatile |-> FALSE, expn_id |-> 0], 508),
    Ex([k |-> "Struct", path |-> Path1("s", 509),
        fields |-> <<[sident |-> [leaf |-> "fe", span |-> 510], expr |-> ExPath("a", 511),
                      span |-> 512]>>,
        maybe_expr |-> <<ExPath("base", 513)>>], 514),
    [Ex([k |-> "Lit", lit |-> "7"], 515) EXCEPT !.attrs = <<Attr("ea", 516)>>]>>

Local(n, ty, init, i) ==
  [id |-> i, opt_ty |-> ty, pat |-> PatIdent(n, i + 1), init |-> init, span |-> i,
   attrs |-> <<Attr("la", i)>>]

\* fn n1() { let v: t = "n1"; let w; fn n0() {} fn n2() {} "n0"; a }
ItStmts ==
  Item("n1",
       Fn(FnDecl(<<>>, RetDefault(520)), NoGenerics,
          Blk(<<StLocal(Local("v", <<TyPath("t", 521)>>, <<ExLit("n1", 522)>>, 523), 525),
                StLocal(Local("w", <<>>, <<>>, 526), 528),
                StItem(SimpleFn("n0", 529), 532),
                StItem(SimpleFn("n2", 533), 536),
                StSemi(ExLit("n0", 537), 538)>>,
              <<ExPath("a", 539)>>, 540)), 400)

\* fn n1() { m!(i) }
ItExprMac ==
  Item("n1",
       Fn(FnDecl(<<>>, RetDefault(542)), NoGenerics,
          Blk(<<>>,
              <<Ex([k |-> "Mac", mac |-> Mac("m", <<Tok(TIdent("i"), 543)>>, 544)], 545)>>,
              546)), 541)

(***************************************************************************)
(* Interpolated fragments, one of each of the 16 kinds.  The fragments of  *)
(* the four kinds whose fold may change the count come in the three names  *)
(* an expanding folder treats differently.                                 *)
(***************************************************************************)
NtItem(it) == [k |-> "NtItem", item |-> it]

NtStmt(st) == [k |-> "NtStmt", stmt |-> st]

NtImplItem(ii) == [k |-> "NtImplItem", impl_item |-> ii]

NtTraitItem(ti) == [k |-> "NtTraitItem", trait_item |-> ti]

MultNames == <<Deleted, "n1", Doubled>>

SingularNts ==
  [i \in 1..3 |-> NtItem(SimpleFn(MultNames[i], 600))] \o
  <<NtItem(ItMacDef),
    NtStmt(StSemi(ExPath("a", 604), 605)),
    NtStmt(StItem(SimpleFn(Deleted, 606), 609)),
    NtStmt(StItem(SimpleFn(Doubled, 610), 613)),
    NtStmt(StMac(Mac("m", <<Tok(TIdent("i"), 614)>>, 615), 616))>> \o
  [i \in 1..3 |-> NtImplItem(ImplMethod(MultNames[i], 620))] \o
  [i \in 1..3 |-> NtTraitItem(TraitType(MultNames[i], 630))]

OtherNts ==
  <<[k |-> "NtBlock", block |-> Blk(<<StSemi(ExPath("a", 641), 642),
                                      StItem(SimpleFn(Doubled, 643), 646)>>,
                                    <<ExLit("n0", 647)>>, 648)],
    [k |-> "NtPat", pat |-> AllPats[8]],
    [k |-> "NtExpr", expr |-> AllExprs[14]],
    [k |-> "NtTy", ty |-> AllTypes[6]],
    [k |-> "NtIdent", sident |-> [leaf |-> "a", span |-> 650], is_mod_name |-> "ModName"],
    [k |-> "NtIdent", sident |-> [leaf |-> "b", span |-> 651], is_mod_name |-> "Plain"],
    [k |-> "NtMeta",
     meta_item |-> [node |-> [k |-> "List", mi_name |-> "cfg",
                              mis |-> <<MetaWord("w", 652),
                                        [node |-> [k |-> "NameValue", mi_name |-> "nv",
                                                   lit |-> "s"],
                                         span |-> 653]>>],
                    span |-> 654]],
    [k |-> "NtPath", path |-> Path2("a", "b", 655)],
    [k |-> "NtTT", tt |-> Tok(TIdent("a"), 656)],
    [k |-> "NtTT", tt |-> Delimited(<<Tok(TLifetime("l"), 657)>>, 658)],
    [k |-> "NtArm", arm |-> Arm(<<PatIdent("p", 661)>>, <<>>, ExPath("y", 662))],
    [k |-> "NtGenerics", generics |-> ItGenericFn.node.generics],
    [k |-> "NtWhereClause", where_clause |-> ItGenericFn.node.generics.where_clause],
    [k |-> "NtArg", arg |-> Arg("x", "a", 663)],
    [k |-> "NtExpr", expr |-> ItExprMac.node.body.expr[1]]>>

Nonterminals == SingularNts \o OtherNts

\* An impl built by a syntax extension (#[derive]): the extension names the
\* item special_idents::invalid, whatever it implements.
ItDerivedImpl ==
  [Impl(<<TraitRef("tr", 670)>>, TyPath("t", 671), <<ImplMethod("n1", 672)>>, 680)
     EXCEPT !.ident = special_idents_invalid]

\* m!(<one token for each of the nonterminals above>)
MacInterpolated ==
  Mac("m", [i \in 1..Len(OtherNts) |-> Tok(TInterpolated(OtherNts[i]), 700 + i)] \o
           <<Tok(TInterpolated(SingularNts[2]), 720),
             Tok(TInterpolated(SingularNts[5]), 721),
             Tok(TInterpolated(SingularNts[10]), 722),
             Tok(TInterpolated(SingularNts[13]), 723)>>, 692)

\* m!($item $stmt $impl_item $trait_item); in item position, where the
\* fragments are `extern crate n1;`, `7;`, `type n1 = _;` and `type n1;`:
\* each is a fragment that a fold has to return one of.
ItFragments ==
  Item("n1",
       [k |-> "Mac",
        m |-> Mac("m",
                  <<Tok(TInterpolated(NtItem(ItExternCrate)), 575),
                    Tok(TInterpolated(NtStmt(StSemi(ExLit("7", 576), 577))), 578),
                    Tok(TInterpolated(NtImplItem(
                          [ImplType("n1", 579) EXCEPT !.node.ty = Ty([k |-> "Infer"], 580)])),
                        581),
                    Tok(TInterpolated(NtTraitItem(
                          [TraitType("n1", 582) EXCEPT !.node.bounds = <<>>,
                                                       !.node.default = <<>>])),
                        583)>>,
                  572)],
       570)

\* An exported macro definition `macro_rules! ident { body }`.
MacroDef(n, body, i) ==
  [ident |-> n, attrs |-> <<>>, id |-> i, span |-> i, imported_from |-> <<>>,
   export |-> TRUE, use_locally |-> FALSE, allow_internal_unstable |-> FALSE,
   body_tts |-> body]

Crate(items, macros) ==
  [module |-> [inner |-> 1, items |-> items],
   attrs |-> <<Attr("ca", 2)>>,
   config |-> <<MetaWord("cfgw", 3)>>,
   exported_macros |-> macros,
   span |-> 1]

\* fn n1(s { fp: x }: t) { 'lb: loop { s { fe: "n1" } } }
ItStructFn ==
  Item("n1",
       Fn(FnDecl(<<[id |-> 550,
                    pat |-> Pat([k |-> "Struct", pth |-> Path1("s", 551),
                                 fields |-> <<[node |-> [ident |-> "fp",
                                                         pat |-> PatIdent("x", 552),
                                                         is_shorthand |-> FALSE],
                                               span |-> 553]>>,
                                 etc |-> FALSE], 554),
                    ty |-> TyPath("t", 555)]>>, RetDefault(556)), NoGenerics,
          Blk(<<>>,
              <<Ex([k |-> "Loop",
                    body |-> Blk(<<>>,
                                 <<Ex([k |-> "Struct", path |-> Path1("s", 557),
                                       fields |-> <<[sident |-> [leaf |-> "fe", span |-> 558],
                                                     expr |-> ExLit("n1", 559),
                                                     span |-> 560]>>,
                                       maybe_expr |-> <<>>], 561)>>, 562),
                    opt_ident |-> <<"lb">>], 563)>>, 564)), 549)

MacFreeItems ==
  <<ItStructFn, ItGenericFn, ItUseSimple, ItUseGlob, ItUseList, ItStatic, ItConst, ItExternCrate,
    ItNestedMod, ItForeignMod, ItEnum, ItStruct, ItDefaultImpl, ItImpl, ItInherentImpl,
    ItTrait, ItStmts, ItDerivedImpl, ItTypes, ItPats>>

MacItems ==
  <<ItTyMac, ItImplMac, ItPatMac, ItExprMac, ItMacDef, ItTestMod>>

\* The items that are folded as the only item of a crate: all but the last two
\* of each catalogue, which are folded as items.
CrateItems ==
  SubSeq(MacFreeItems, 1, Len(MacFreeItems) - 2) \o SubSeq(MacItems, 1, Len(MacItems) - 2)

\* The crates folded: one for every item of the catalogue, the empty crate,
\* crates of several items and a crate with exported macros.
Crates ==
  {Crate(<<CrateItems[i]>>, <<>>) : i \in 1..Len(CrateItems)} \cup
  {Crate(<<>>, <<>>),
   Crate(<<SimpleFn(Deleted, 800), SimpleFn("n1", 803), SimpleFn(Doubled, 806)>>, <<>>),
   Crate(<<ItStruct, ItExprMac>>, <<>>),
   Crate(<<ItFragments>>, <<>>),
   Crate(<<SimpleFn("n1", 803)>>,
         <<MacroDef("em", <<Tok(TIdent("x"), 811), Tok(TLifetime("l"), 812)>>, 810),
           MacroDef("en", <<>>, 813)>>)}

(***************************************************************************)
(* Children of the sequences whose fold may change the count: at most      *)
(* MaxLen children, each with one of the three names an expanding folder   *)
(* treats differently.  Child k carries the ids and spans 10k .. 10k+9.    *)
(***************************************************************************)
MaxLen == 3

ChildNames == {Deleted, "n1", Doubled}

NameSeqs == UNION {[1..m -> ChildNames] : m \in 0..MaxLen}

ModOf(ns) == [inner |-> 5, items |-> [k \in 1..Len(ns) |-> SimpleFn(ns[k], 10 * k)]]

BlockOf(ns, tail) ==
  Blk([k \in 1..Len(ns) |-> StItem(SimpleFn(ns[k], 10 * k), 10 * k + 5)], tail, 6)

BlockTails == {<<>>, <<ExLit(Deleted, 7)>>, <<ExPath("a", 8)>>}

ImplOf(ns) ==
  Impl(<<TraitRef("tr", 1)>>, TyPath("t", 2),
       [k \in 1..Len(ns) |-> ImplMethod(ns[k], 10 * k)], 3).node

TraitOf(ns) ==
  [k |-> "Trait", unsafety |-> "Normal", generics |-> NoGenerics, bounds |-> <<>>,
   items |-> [k \in 1..Len(ns) |-> TraitType(ns[k], 10 * k)]]

ItemKinds ==
  {ImplOf(ns) : ns \in NameSeqs} \cup {TraitOf(ns) : ns \in NameSeqs} \cup
  {MacFreeItems[i].node : i \in 1..Len(MacFreeItems)}

\* Macro invocations, as found in the catalogue.
Macs ==
  {ItTestMod.node.m.items[1].node.body.stmts[1].node.mac,
   ItMacDef.node.m,
   ItExprMac.node.body.expr[1].node.mac,
   MacInterpolated,
   Mac("e", <<>>, 900)}

Tokens ==
  {TIdent("a"), [TIdent("b") EXCEPT !.style = "ModName"], TLifetime("l"), TSubstNt("s"),
   [TSubstNt("t") EXCEPT !.namep = "ModName"], TMatchNt("c", "expr"),
   [TMatchNt("e", "token") EXCEPT !.namep = "ModName", !.kindp = "Plain"],
   TComma, TLiteral("7"), [k |-> "FatArrow"], [k |-> "Underscore"],
   [k |-> "DocComment", lit |-> "doc"], [k |-> "Eof"]}

\* Token trees: the trees of the macro definition above, a repetition with
\* a delimited group and a separator that is not an identifier, and a token
\* holding a fragment.
TokenTrees ==
  LET def  == ItMacDef.node.m.node.tts[1]
      body == def.delimed.tts
  IN  {def, body[1], body[2], body[3], body[4], body[5], body[5].delimed.tts[2],
       Sequence(<<Delimited(<<Tok(TSubstNt("x"), 61)>>, 62), Tok(TLifetime("l"), 65)>>,
                <<TComma>>, 66),
       [Sequence(<<>>, <<>>, 67) EXCEPT !.seq.op = "ZeroOrMore", !.seq.num_captures = 0],
       Delimited(<<>>, 68),
       Tok(TInterpolated(OtherNts[5]), 71)}

\* Statements: `a`, `a;`, `n0;` and `n0` (a literal that a stripping fold
\* of expressions deletes), `m!(i);`, `let v: t = "n1";` and the
\* declarations of the items `fn n0() {}`, `fn n1() {}`, `fn n2() {}`.
Stmts ==
  {StExpr(ExPath("a", 901), 902), StSemi(ExPath("a", 903), 904),
   StSemi(ExLit(Deleted, 905), 906), StExpr(ExLit(Deleted, 907), 908),
   StMac(Mac("m", <<Tok(TIdent("i"), 909)>>, 910), 911),
   [StMac(Mac("m", <<>>, 912), 913) EXCEPT !.node.semi = "Braces"],
   StLocal(Local("v", <<TyPath("t", 914)>>, <<ExLit("n1", 915)>>, 916), 918)} \cup
  {StItem(SimpleFn(n, 920), 925) : n \in ChildNames}

(***************************************************************************)
(* Reading a tree.  A field holds an atom (a name, an id, a span, a flag), *)
(* a sequence of atoms, or a node: a record, or a sequence of nodes.  The  *)
(* name of the field says which.  Leaves(x, key, path) is the set of       *)
(* <<path, key, atom>> for the atoms of the tree x, which is found in the  *)
(* field `key` at `path`; the elements of a sequence have the key of the   *)
(* sequence.                                                               *)
(***************************************************************************)
AtomKeys ==
  {"abi", "allow_internal_unstable", "asm", "binding_mode", "capture_clause",
   "close_span", "constness", "constraint", "ctxt", "defaultness", "delim", "etc",
   "expn_id", "export", "frag", "global", "id", "ident", "identifier", "inner",
   "is_indirect", "is_mod_name", "is_rw", "is_shorthand", "is_sugared_doc", "k",
   "kindp", "leaf", "lim", "lit", "mi_name", "modifier", "mutbl", "n", "name", "namep",
   "num_captures", "op", "open_span", "polarity", "position", "ref_id", "rules", "semi",
   "span", "style", "unsafety", "use_locally", "variadic", "vis", "volatile"}

AtomSeqKeys == {"opt_ident", "opt_name", "rename", "imported_from"}

\* The positions in a sequence, as they appear in a path.
Indices == {ToString(n) : n \in 1..64}

IsIndex(d) == ToString(d) \in Indices

Key(s) == ToString(s)

RECURSIVE Leaves(_, _, _)
Leaves(x, key, path) ==
  IF key \in AtomKeys THEN {<<path, key, x>>}
  ELSE IF key \in AtomSeqKeys THEN {<<path \o <<ToString(d)>>, key, x[d]>> : d \in DOMAIN x}
  ELSE UNION {Leaves(x[d], IF IsIndex(d) THEN key ELSE d, path \o <<ToString(d)>>) :
                d \in DOMAIN x}

\* The fields on the way to a leaf, without the positions in sequences.
Chain(t) == SelectSeq(t[1], LAMBDA s : s \notin Indices)

\* The leaf t is the field k1 of a node that is (in) the field k2.
In2(t, k1, k2) ==
  LET c == Chain(t)
  IN  Len(c) >= 2 /\ c[Len(c)] = Key(k1) /\ c[Len(c) - 1] = Key(k2)

\* ... and that node is (in) the field k3.
In3(t, k1, k2, k3) ==
  LET c == Chain(t)
  IN  Len(c) >= 3 /\ c[Len(c)] = Key(k1) /\ c[Len(c) - 1] = Key(k2) /\
      c[Len(c) - 2] = Key(k3)

\* The positions of a tree that hold an identifier, by the construct.
IsBinding(t) == In2(t, "leaf", "pth1")

IsPathSegment(t) == t[2] = "identifier"

IsExprFieldName(t) == In3(t, "leaf", "sident", "fields")

IsPatFieldName(t) == In3(t, "ident", "node", "fields")

IsLabel(t) == t[2] = "opt_ident" \/ In2(t, "leaf", "label")

IsLifetime(t) ==
  \E k \in {"lifetime", "lifetimes", "bounds", "region", "opt_lifetime"} : In2(t, "name", k)

IsTokenIdent(t) ==
  \E k1 \in {"ident", "name", "frag"}, k2 \in {"tok", "separator"} : In2(t, k1, k2)

IsExported(t) == t[1][1] = Key("exported_macros")

IsTyParamName(t) == In2(t, "ident", "ty_params")

IsVariantName(t) == In3(t, "name", "node", "variants")

IsUseName(t) ==
  \/ In3(t, "ident", "node", "view_path")
  \/ \E k \in {"name", "rename"} : In3(t, k, "node", "path_list_idents")

IsLiteral(t) == t[2] = "lit"

\* A macro invocation in type, pattern, expression, item or statement
\* position ("Mac"), or in impl-item position ("Macro").
IsMacNode(t) == t[2] = "k" /\ t[3] \in {"Mac", "Macro"}

HasMac(x) == \E t \in Leaves(x, "root", <<>>) : IsMacNode(t)

\* The positions that hold a value of type Ident.
IsIdent(t) ==
  \/ t[2] \in {"ident", "identifier", "leaf", "opt_ident", "frag", "rename", "imported_from"}
  \/ t[2] = "name" /\ ~ IsLifetime(t)

\* The number of calls of the method `name` with the argument `arg`.
Calls(name, arg) ==
  Cardinality({i \in DOMAIN fld.log : fld.log[i].op = name /\ fld.log[i].arg = arg})

(***************************************************************************)
(* Folders.  A folder is the set of methods it overrides, with the state   *)
(* the overrides keep: the next fresh id.  The log and the panic message    *)
(* are the observation of a pass.                                          *)
(***************************************************************************)
FirstId == 1000

DefaultFolder ==
  [ident_mode |-> "dflt", mac_mode |-> "dflt", item_mode |-> "dflt",
   stmt_mode |-> "dflt", impl_item_mode |-> "dflt", trait_item_mode |-> "dflt",
   opt_expr_mode |-> "dflt", id_mode |-> "keep", span_mode |-> "keep",
   log |-> <<>>, next |-> FirstId, failed |-> ""]

Overrides ==
  {DefaultFolder,
   [DefaultFolder EXCEPT !.ident_mode = "const"],
   [DefaultFolder EXCEPT !.item_mode = "expand"],
   [DefaultFolder EXCEPT !.item_mode = "zero"],
   [DefaultFolder EXCEPT !.item_mode = "two"],
   [DefaultFolder EXCEPT !.item_mode = "nonmod"],
   [DefaultFolder EXCEPT !.stmt_mode = "zero"],
   [DefaultFolder EXCEPT !.stmt_mode = "two"],
   [DefaultFolder EXCEPT !.impl_item_mode = "expand"],
   [DefaultFolder EXCEPT !.trait_item_mode = "expand"],
   [DefaultFolder EXCEPT !.opt_expr_mode = "strip"],
   [DefaultFolder EXCEPT !.id_mode = "fresh", !.span_mode = "mark"],
   [DefaultFolder EXCEPT !.id_mode = "fresh", !.item_mode = "expand"],
   [DefaultFolder EXCEPT !.id_mode = "fresh", !.span_mode = "mark", !.item_mode = "zero"]}

Folders == Overrides \cup {[g EXCEPT !.mac_mode = "noop"] : g \in Overrides}

IdentityFolder == [DefaultFolder EXCEPT !.mac_mode = "noop"]

\* The folder as it was before the pass.
Before(g) == [g EXCEPT !.log = <<>>, !.next = FirstId, !.failed = ""]

(***************************************************************************)
(* The state machine.  A folder is made; one operation is applied with it  *)
(* to one input; the pass completes with an output or panics with none.    *)
(***************************************************************************)
Init ==
  /\ pc = "ready"
  /\ op = "none"
  /\ fld \in Folders
  /\ input = <<>>
  /\ out = <<>>
  /\ par = <<>>

Apply(name, x, r) ==
  /\ pc = "ready"
  /\ fld' = r.f
  /\ pc' = IF fld'.failed = "" THEN "done" ELSE "failed"
  /\ op' = name
  /\ input' = <<x>>
  /\ out' = IF fld'.failed = "" THEN <<r.v>> ELSE <<>>
  /\ par' = par

FoldCrate == \E c \in Crates : Apply("fold_crate", c, fold_crate(c, fld))

FoldMac == \E m \in Macs : Apply("noop_fold_mac", m, Invoke("noop_fold_mac", m, fld))

FoldMod == \E ns \in NameSeqs : Apply("noop_fold_mod", ModOf(ns), Invoke("noop_fold_mod", ModOf(ns), fld))

FoldBlock ==
  \E ns \in NameSeqs, tail \in BlockTails :
    Apply("noop_fold_block", BlockOf(ns, tail), Invoke("noop_fold_block", BlockOf(ns, tail), fld))

FoldItemKind ==
  \E i \in ItemKinds : Apply("noop_fold_item_kind", i, Invoke("noop_fold_item_kind", i, fld))

FoldItem ==
  \E i \in {MacFreeItems[k] : k \in 1..Len(MacFreeItems)} \cup
           {MacItems[k] : k \in 1..Len(MacItems)} :
    Apply("fold_item", i, fold_item(i, fld))

FoldExpr ==
  \E e \in {AllExprs[k] : k \in 1..Len(AllExprs)} \cup {ItExprMac.node.body.expr[1]} :
    Apply("fold_expr", e, fold_expr(e, fld))

FoldInterpolated ==
  \E i \in 1..Len(Nonterminals) :
    Apply("noop_fold_interpolated", Nonterminals[i],
          Invoke("noop_fold_interpolated", Nonterminals[i], fld))

FoldToken ==
  \E t \in Tokens \cup {TInterpolated(OtherNts[i]) : i \in {5, 8}} :
    Apply("noop_fold_token", t, Invoke("noop_fold_token", t, fld))

FoldTt == \E tt \in TokenTrees : Apply("fold_tt", tt, fold_tt(tt, fld))

FoldStmt == \E s \in Stmts : Apply("noop_fold_stmt", s, Invoke("noop_fold_stmt", s, fld))

Next ==
  \/ FoldCrate
  \/ FoldMac
  \/ FoldMod
  \/ FoldBlock
  \/ FoldItemKind
  \/ FoldItem
  \/ FoldExpr
  \/ FoldInterpolated
  \/ FoldToken
  \/ FoldTt
  \/ FoldStmt

Spec == Init /\ [][Next]_vars

(***************************************************************************)
(* Two passes, interleaved.  Each pass has a folder of its own and folds   *)
(* the items of a module of its own, one fold_item at a time; a step is    *)
(* the next fold_item of one of the two.                                   *)
(***************************************************************************)
ParFolders ==
  {DefaultFolder,
   [DefaultFolder EXCEPT !.ident_mode = "const"],
   [DefaultFolder EXCEPT !.id_mode = "fresh", !.span_mode = "mark"],
   [DefaultFolder EXCEPT !.id_mode = "fresh", !.item_mode = "expand"]}

ParItems ==
  <<{<<SimpleFn("n1", 10), ItDerivedImpl>>,
     <<SimpleFn(Doubled, 10), SimpleFn(Deleted, 20), ItStruct>>},
    {<<ItStmts>>,
     <<ItInherentImpl, SimpleFn(Doubled, 40), ItGenericFn>>}>>

\* A pass over the items `tree` with the folder g, before its first step:
\* `at` items are folded, v is the output so far, f the folder after them.
NewPass(tree, g) == [tree |-> tree, folder |-> g, at |-> 0, v |-> <<>>, f |-> g]

InitPar ==
  /\ pc = "par"
  /\ op = "none"
  /\ fld = DefaultFolder
  /\ input = <<>>
  /\ out = <<>>
  /\ \E g1 \in ParFolders, g2 \in ParFolders, t1 \in ParItems[1], t2 \in ParItems[2] :
        par = <<NewPass(t1, g1), NewPass(t2, g2)>>

\* A folder that shares the counter of fresh ids with the other pass.
SharedFolder(p) ==
  [par[p].f EXCEPT !.next = IF par[1].f.next > par[2].f.next THEN par[1].f.next
                            ELSE par[2].f.next]

\* The folder an operation of the pass p runs with: &mut self.
OwnFolder(p) == par[p].f

FoldNext(p) ==
  /\ pc = "par"
  /\ par[p].at < Len(par[p].tree)
  /\ LET r == fold_item(par[p].tree[par[p].at + 1], OwnFolder(p))
     IN  par' = [par EXCEPT ![p] = [@ EXCEPT !.at = @ + 1, !.v = @ \o r.v, !.f = r.f]]
  /\ UNCHANGED <<pc, op, fld, input, out>>

NextPar == \E p \in 1..2 : FoldNext(p)

SpecPar == InitPar /\ [][NextPar]_vars

(***************************************************************************)
(* Properties.                                                             *)
(***************************************************************************)
Done(name) == pc = "done" /\ op = name

\* The folder of the pass overrides what g overrides.
Is(g) == Before(fld) = Before(g)

ToZzIdentFolder == [IdentityFolder EXCEPT !.ident_mode = "const"]

\* C2 (substitution law): with fold_ident overridden to return K, fold_crate
\* returns a crate whose bindings, path segments, field names of struct
\* expressions and struct patterns, labels, lifetimes and identifiers in macro
\* bodies all are K, and whose literals are those of the input.
C2_Substitution ==
  (Done("fold_crate") /\ Is(ToZzIdentFolder)) =>
    /\ \A t \in Leaves(out[1], "crate", <<>>) :
         (IsBinding(t) \/ IsPathSegment(t) \/ IsExprFieldName(t) \/ IsPatFieldName(t) \/
          IsLabel(t) \/ IsLifetime(t) \/ (IsTokenIdent(t) /\ ~ IsExported(t))) => t[3] = K
    /\ {t \in Leaves(out[1], "crate", <<>>) : IsLiteral(t)} =
       {t \in Leaves(input[1], "crate", <<>>) : IsLiteral(t)}

\* The number of identifiers equal to n in the crate c, the one of the module
\* item that noop_fold_crate wraps the crate in included.
Occurrences(n, c) ==
  Cardinality({u \in Leaves(c, "crate", <<>>) : IsIdent(u) /\ u[3] = n}) +
  (IF n = special_idents_invalid THEN 1 ELSE 0)

\* C3 (an override reaches every occurrence): with fold_ident alone overridden,
\* fold_crate passes every identifier of the crate to fold_ident exactly once:
\* those of expressions and patterns, the names of type parameters, of use
\* items and of enum variants, and those of the bodies of exported macros.
C3_IdentsReached ==
  (Done("fold_crate") /\ Is(ToZzIdentFolder)) =>
    \A t \in Leaves(input[1], "crate", <<>>) :
      IsIdent(t) => Calls("fold_ident", t[3]) = Occurrences(t[3], input[1])

\* The positions in the log of the calls of the method `name`.
CallsOf(name) == {i \in DOMAIN fld.log : fld.log[i].op = name}

MacDisabled == "fold_mac disabled by default"

\* C4 (macro folding is disabled by default): with a folder that does not
\* override fold_mac, a pass that calls fold_mac panics in that call, the last
\* of the pass, and has no output; the default folder does so on every tree
\* that holds a macro invocation; and no folder calls fold_mac on a tree that
\* holds none.
C4_MacDisabled ==
  pc # "ready" =>
    /\ (fld.mac_mode = "dflt" /\ CallsOf("fold_mac") # {}) =>
         /\ pc = "failed" /\ out = <<>> /\ fld.failed = MacDisabled
         /\ CallsOf("fold_mac") = {Len(fld.log)}
    /\ (Is(DefaultFolder) /\ HasMac(input[1])) => CallsOf("fold_mac") # {}
    /\ (op # "noop_fold_mac" /\ ~ HasMac(input[1])) => CallsOf("fold_mac") = {}

\* An impl item that is a macro invocation stops the default folder.
C4_Witness ==
  /\ pc = "failed" /\ op = "fold_item" /\ input = <<ItImplMac>>
  /\ Is(DefaultFolder) /\ fld.failed = MacDisabled

\* C5 (opt-in macro folding): noop_fold_mac passes the path of the invocation
\* to fold_path, its token trees to fold_tts and its span to new_span, once
\* each when it returns and at most once when the pass panics, and returns an
\* invocation with the hygiene context of its input.
C5_NoopFoldMac ==
  (op = "noop_fold_mac" /\ pc # "ready") =>
    LET mac == input[1]
        calls == <<Calls("fold_path", mac.node.path), Calls("fold_tts", mac.node.tts),
                   Calls("new_span", mac.span)>>
    IN  /\ \A i \in 1..3 : calls[i] <= 1
        /\ pc = "done" => /\ calls = <<1, 1, 1>>
                          /\ out[1].node.ctxt = mac.node.ctxt

\* The invocation with the interpolated fragments is folded by a folder that
\* marks the spans.
C5_Witness ==
  /\ Done("noop_fold_mac") /\ input = <<MacInterpolated>> /\ fld.span_mode = "mark"
  /\ out[1].span = MacInterpolated.span + SpanMark

RECURSIVE Flat(_)
Flat(ss) == IF ss = <<>> THEN <<>> ELSE Head(ss) \o Flat(Tail(ss))

\* The parents whose children fold to any number of results.
IsParent ==
  \/ op \in {"noop_fold_mod", "noop_fold_block"}
  \/ op = "noop_fold_item_kind" /\ input[1].k \in {"Impl", "Trait"}

\* The children of the parent folded, and the sequence folded from them.
ChildrenOf(x) ==
  CASE op = "noop_fold_mod" -> x.items
    [] op = "noop_fold_block" -> x.stmts
    [] op = "noop_fold_item_kind" -> IF x.k = "Impl" THEN x.impl_items ELSE x.items

\* What the folder of the pass returns for one child, folded on its own.
ChildResult(c) ==
  CASE op = "noop_fold_mod" -> fold_item(c, Before(fld)).v
    [] op = "noop_fold_block" -> fold_stmt(c, Before(fld)).v
    [] op = "noop_fold_item_kind" ->
         IF input[1].k = "Impl" THEN fold_impl_item(c, Before(fld)).v
         ELSE fold_trait_item(c, Before(fld)).v

Expected == Flat([k \in DOMAIN ChildrenOf(input[1]) |-> ChildResult(ChildrenOf(input[1])[k])])

\* What tells a result from the others: its span, and its name if it has one.
Tag(r) == IF op = "noop_fold_block" THEN <<r.span>> ELSE <<r.span, r.ident>>

\* C6 (flattening and order preservation): the items of a folded module, the
\* statements of a folded block and the items of a folded impl or trait are
\* the results of the children, concatenated in the order of the children:
\* as many as the children return together, child by child, each child's in
\* the order returned.  (A folder that numbers the nodes gives a result the
\* ids of the pass; it is told by its span and name.)
C6_Flattening ==
  (pc = "done" /\ IsParent) =>
    LET res == ChildrenOf(out[1])
        exp == Expected
    IN  /\ Len(res) = Len(exp)
        /\ \A i \in DOMAIN res : Tag(res[i]) = Tag(exp[i])
        /\ fld.id_mode = "keep" => res = exp

\* Three items, of which the folder deletes the first and doubles the last.
C6_Witness ==
  /\ Done("noop_fold_mod") /\ fld.item_mode = "expand"
  /\ input = <<ModOf(<<Deleted, "n1", Doubled>>)>>
  /\ [i \in 1..3 |-> out[1].items[i].ident] = <<"n1", Doubled, DoubledCopy>>

\* The Folder operation that matches the kind of a fragment: its name, the
\* payload it is given and what it returns for it to the folder g.
KindFold(nt, g) ==
  CASE nt.k = "NtItem" ->
         [name |-> "fold_item", arg |-> nt.item, r |-> fold_item(nt.item, g)]
    [] nt.k = "NtBlock" ->
         [name |-> "fold_block", arg |-> nt.block, r |-> fold_block(nt.block, g)]
    [] nt.k = "NtStmt" ->
         [name |-> "fold_stmt", arg |-> nt.stmt, r |-> fold_stmt(nt.stmt, g)]
    [] nt.k = "NtPat" ->
         [name |-> "fold_pat", arg |-> nt.pat, r |-> fold_pat(nt.pat, g)]
    [] nt.k = "NtExpr" ->
         [name |-> "fold_expr", arg |-> nt.expr, r |-> fold_expr(nt.expr, g)]
    [] nt.k = "NtTy" ->
         [name |-> "fold_ty", arg |-> nt.ty, r |-> fold_ty(nt.ty, g)]
    [] nt.k = "NtIdent" ->
         [name |-> "fold_ident", arg |-> nt.sident.leaf, r |-> fold_ident(nt.sident.leaf, g)]
    [] nt.k = "NtMeta" ->
         [name |-> "fold_meta_item", arg |-> nt.meta_item,
          r |-> fold_meta_item(nt.meta_item, g)]
    [] nt.k = "NtPath" ->
         [name |-> "fold_path", arg |-> nt.path, r |-> fold_path(nt.path, g)]
    [] nt.k = "NtTT" ->
         [name |-> "fold_tt", arg |-> nt.tt, r |-> fold_tt(nt.tt, g)]
    [] nt.k = "NtArm" ->
         [name |-> "fold_arm", arg |-> nt.arm, r |-> fold_arm(nt.arm, g)]
    [] nt.k = "NtImplItem" ->
         [name |-> "fold_impl_item", arg |-> nt.impl_item,
          r |-> fold_impl_item(nt.impl_item, g)]
    [] nt.k = "NtTraitItem" ->
         [name |-> "fold_trait_item", arg |-> nt.trait_item,
          r |-> fold_trait_item(nt.trait_item, g)]
    [] nt.k = "NtGenerics" ->
         [name |-> "fold_generics", arg |-> nt.generics,
          r |-> fold_generics(nt.generics, g)]
    [] nt.k = "NtWhereClause" ->
         [name |-> "fold_where_clause", arg |-> nt.where_clause,
          r |-> fold_where_clause(nt.where_clause, g)]
    [] nt.k = "NtArg" ->
         [name |-> "fold_arg", arg |-> nt.arg, r |-> fold_arg(nt.arg, g)]

\* The payload of a fragment.
Payload(nt) ==
  CASE nt.k = "NtItem" -> nt.item
    [] nt.k = "NtBlock" -> nt.block
    [] nt.k = "NtStmt" -> nt.stmt
    [] nt.k = "NtPat" -> nt.pat
    [] nt.k = "NtExpr" -> nt.expr
    [] nt.k = "NtTy" -> nt.ty
    [] nt.k = "NtIdent" -> nt.sident.leaf
    [] nt.k = "NtMeta" -> nt.meta_item
    [] nt.k = "NtPath" -> nt.path
    [] nt.k = "NtTT" -> nt.tt
    [] nt.k = "NtArm" -> nt.arm
    [] nt.k = "NtImplItem" -> nt.impl_item
    [] nt.k = "NtTraitItem" -> nt.trait_item
    [] nt.k = "NtGenerics" -> nt.generics
    [] nt.k = "NtWhereClause" -> nt.where_clause
    [] nt.k = "NtArg" -> nt.arg

SingularKinds == {"NtItem", "NtStmt", "NtImplItem", "NtTraitItem"}

ExpectedOne ==
  {"expected fold to produce exactly one item",
   "expected fold to produce exactly one statement"}

\* C7 (arity of singular fragments): noop_fold_interpolated on an item,
\* statement, impl-item or trait-item fragment, with a folder whose operation
\* for the payload returns (without a panic) n results, returns the fragment
\* holding the result if n = 1 and panics, with no output, if n = 0 or n >= 2.
C7_Arity ==
  (op = "noop_fold_interpolated" /\ pc # "ready" /\ input[1].k \in SingularKinds) =>
    LET r == KindFold(input[1], Before(fld)).r
    IN  r.f.failed = "" =>
          IF Len(r.v) = 1
          THEN pc = "done" /\ out[1].k = input[1].k /\ Payload(out[1]) = r.v[1]
          ELSE pc = "failed" /\ out = <<>> /\ fld.failed \in ExpectedOne

\* An item fragment whose item the folder doubles: the pass panics.
C7_Witness ==
  /\ op = "noop_fold_interpolated" /\ pc = "failed" /\ fld.item_mode = "expand"
  /\ input = <<NtItem(SimpleFn(Doubled, 600))>>
  /\ fld.failed = "expected fold to produce exactly one item"

\* C8 (the kind of a fragment is preserved): when noop_fold_interpolated
\* returns, the result is a fragment of the kind of its input, its payload is
\* what the Folder operation of that kind returns for the input's payload,
\* that operation was called once with it, and an identifier fragment keeps
\* its span and its is-module-name flag.
C8_KindPreserved ==
  Done("noop_fold_interpolated") =>
    LET nt == input[1]
        kf == KindFold(nt, Before(fld))
    IN  /\ out[1].k = nt.k
        /\ IF nt.k \in SingularKinds THEN <<Payload(out[1])>> = kf.r.v
           ELSE Payload(out[1]) = kf.r.v
        /\ Calls(kf.name, kf.arg) = 1
        /\ nt.k = "NtIdent" =>
             /\ out[1].sident.span = nt.sident.span
             /\ out[1].is_mod_name = nt.is_mod_name

\* The identifier fragment that is a module name, folded by the folder that
\* renames and by one that marks the spans.
C8_Witness ==
  /\ Done("noop_fold_interpolated") /\ input = <<OtherNts[5]>>
  /\ \/ fld.ident_mode = "const" /\ out[1].sident.leaf = K
     \/ fld.span_mode = "mark"
  /\ out[1].is_mod_name = "ModName"

\* The module item that noop_fold_crate wraps the crate c in.
Wrapped(c) ==
  [ident |-> special_idents_invalid, attrs |-> c.attrs, id |-> DUMMY_NODE_ID,
   vis |-> "Public", span |-> c.span, node |-> [k |-> "Mod", m |-> c.module]]

\* What fold_item returns for it, after the fold of the configuration.
WrappedResult(c) == fold_item(Wrapped(c), fold_meta_items(c.config, Before(fld)).f)

MoreThanOne == "a crate cannot expand to more than one item"

NotAModule == "fold converted a module to not a module"

\* C9 as stated (whole-unit assembly): noop_fold_crate completes only if
\* fold_item returns, for the module item the crate is wrapped in, exactly one
\* item, a module; it panics if no item, two or more, or an item that is not
\* a module is returned.
C9_OnlyOneModule ==
  (op = "fold_crate" /\ pc # "ready") =>
    LET r == WrappedResult(input[1])
    IN  r.f.failed = "" =>
          (pc = "done" <=> (Len(r.v) = 1 /\ r.v[1].node.k = "Mod"))

\* C9 as amended: noop_fold_crate passes the module item to fold_item once.
\* It panics if two or more items are returned, or one that is not a module.
\* If one module is returned the crate has its module, attributes and span;
\* if none is returned the pass completes too, with a crate of an empty
\* module, no attributes and the span of the input.
C9_Assembly ==
  (op = "fold_crate" /\ pc # "ready") =>
    LET c == input[1]
        r == WrappedResult(c)
    IN  r.f.failed = "" =>
          /\ Calls("fold_item", Wrapped(c)) = 1
          /\ CASE Len(r.v) = 0 ->
                    /\ pc = "done"
                    /\ out[1].module = [inner |-> c.span, items |-> <<>>]
                    /\ out[1].attrs = <<>>
                    /\ out[1].span = c.span
               [] Len(r.v) >= 2 -> pc = "failed" /\ fld.failed = MoreThanOne
               [] OTHER ->
                    IF r.v[1].node.k # "Mod" THEN pc = "failed" /\ fld.failed = NotAModule
                    ELSE /\ pc = "done"
                         /\ out[1].module = r.v[1].node.m
                         /\ out[1].attrs = r.v[1].attrs
                         /\ out[1].span = r.v[1].span

\* A crate of three items whose folder returns no item for the module item:
\* the pass completes with the empty crate.
C9_Witness ==
  /\ Done("fold_crate") /\ fld.item_mode = "zero"
  /\ Len(input[1].module.items) = 3 /\ input[1].attrs # <<>>
  /\ out[1].module.items = <<>> /\ out[1].attrs = <<>>

\* C10 (plain tokens): noop_fold_token calls fold_ident once with the
\* identifier of an Ident, Lifetime or SubstNt token, and once with each of
\* the two identifiers of a MatchNt token, and nothing else; the token
\* returned is the input with these identifiers replaced by the results.  A
\* token of another kind that is not interpolated is returned as it is, and
\* no operation of the folder is called.
C10_PlainTokens ==
  (op = "noop_fold_token" /\ pc # "ready" /\ input[1].k # "Interpolated") =>
    LET t == input[1]
        F(i) == fold_ident(i, Before(fld)).v
    IN  /\ pc = "done"
        /\ CASE t.k \in {"Ident", "Lifetime", "SubstNt"} ->
                  /\ fld.log = <<[op |-> "fold_ident", arg |-> t.ident]>>
                  /\ out[1] = [t EXCEPT !.ident = F(t.ident)]
             [] t.k = "MatchNt" ->
                  /\ fld.log = <<[op |-> "fold_ident", arg |-> t.name],
                                 [op |-> "fold_ident", arg |-> t.frag]>>
                  /\ out[1] = [t EXCEPT !.name = F(t.name), !.frag = F(t.frag)]
             [] OTHER -> fld.log = <<>> /\ out[1] = t

\* The renaming folder on a MatchNt token: both identifiers are renamed, the
\* flags are kept.
C10_Witness ==
  /\ Done("noop_fold_token") /\ fld.ident_mode = "const"
  /\ input = <<[TMatchNt("e", "token") EXCEPT !.namep = "ModName", !.kindp = "Plain"]>>
  /\ out = <<[k |-> "MatchNt", name |-> K, frag |-> K, namep |-> "ModName",
              kindp |-> "Plain"]>>

\* The log of the calls made after the folder g.
Since(g, h) == SubSeq(h.log, Len(g.log) + 1, Len(h.log))

\* C11 (repetition groups): noop_fold_tt on a repetition passes the inner
\* sequence to fold_tts and then, when there is a separator and only then,
\* the separator to fold_token, and makes no other call; it returns a
\* repetition of these two results whose operator and number of binders are
\* the input's, with every folder.
C11_Repetition ==
  (op = "fold_tt" /\ pc # "ready" /\ input[1].k = "Sequence") =>
    LET tt == input[1]
        g  == Call("fold_tt", tt, Before(fld))
        r1 == fold_tts(tt.seq.tts, g)
        r2 == IF tt.seq.separator = <<>> THEN [v |-> <<>>, f |-> r1.f]
              ELSE LET r == fold_token(tt.seq.separator[1], r1.f)
                   IN  [v |-> <<r.v>>, f |-> r.f]
    IN  /\ pc = "done"
        /\ fld.log = r2.f.log
        /\ Cardinality({i \in DOMAIN fld.log : fld.log[i].op = "fold_token" /\
                          i > Len(r1.f.log)}) =
             (IF tt.seq.separator = <<>> THEN 0 ELSE 1)
        /\ out[1].k = "Sequence" /\ out[1].span = tt.span
        /\ out[1].seq.tts = r1.v
        /\ out[1].seq.separator = r2.v
        /\ out[1].seq.op = tt.seq.op
        /\ out[1].seq.num_captures = tt.seq.num_captures
        /\ DOMAIN out[1].seq = DOMAIN tt.seq

\* The renaming folder on $(d $e:token)f+ of the macro definition: the names
\* inside and the separator are renamed, the operator and the number of
\* binders are kept.
C11_Witness ==
  /\ Done("fold_tt") /\ fld.ident_mode = "const" /\ fld.mac_mode = "noop"
  /\ input = <<ItMacDef.node.m.node.tts[1].delimed.tts[3]>>
  /\ out = <<Sequence(<<Tok(TIdent(K), 43), Tok(TMatchNt(K, K), 44)>>, <<TIdent(K)>>, 45)>>

\* C12 (delimited groups): noop_fold_tt on a delimited group returns a
\* delimited group with the delimiter, the two delimiter spans and the span
\* of the input, whose inner sequence is the result of fold_tts on the
\* inner sequence of the input and has its length.
C12_Delimited ==
  (op = "fold_tt" /\ pc # "ready" /\ input[1].k = "Delimited") =>
    LET tt == input[1]
        r  == fold_tts(tt.delimed.tts, Call("fold_tt", tt, Before(fld)))
    IN  /\ pc = "done"
        /\ fld.log = r.f.log
        /\ out[1] = [tt EXCEPT !.delimed.tts = r.v]
        /\ Len(out[1].delimed.tts) = Len(tt.delimed.tts)
        /\ \A i \in DOMAIN tt.delimed.tts :
              /\ out[1].delimed.tts[i].k = tt.delimed.tts[i].k
              /\ out[1].delimed.tts[i].span = tt.delimed.tts[i].span

\* The folder that marks the spans it is given, on the body of the macro
\* definition: the spans of the group are the input's.
C12_Witness ==
  /\ Done("fold_tt") /\ fld.span_mode = "mark"
  /\ input = <<ItMacDef.node.m.node.tts[1]>>
  /\ out[1].span = 55 /\ out[1].delimed.open_span = 56 /\ out[1].delimed.close_span = 57
  /\ out[1].delimed.delim = "Paren" /\ Len(out[1].delimed.tts) = 5

\* The fields that hold a node id, and those that hold a span.
IdKeys == {"id", "ref_id"}

\* The id of an attribute is an AttrId, which is not the id of a node.
IsNodeId(t) == t[2] \in IdKeys /\ ~ In3(t, "id", "node", "attrs")

SpanKeys == {"span", "open_span", "close_span", "inner"}

\* The number of fields of the tree x, among those named in keys, that hold v.
Fields(x, keys, v) ==
  Cardinality({t \in Leaves(x, "root", <<>>) :
                 t[2] \in keys /\ t[3] = v /\ (t[2] \in IdKeys => IsNodeId(t))})

\* The folder of the pass overrides no operation; it may override the hooks.
OnlyHooks ==
  \E g \in {DefaultFolder, [DefaultFolder EXCEPT !.id_mode = "fresh", !.span_mode = "mark"]} :
     Is(g)

\* C13 (the hooks are called exactly once): in a pass of the default
\* operations, new_id is called once for every id field of the input and
\* new_span once for every span field, and the fields of the output hold the
\* results: with a folder that marks the spans, every span field of the
\* output is marked.
C13_HooksOnce ==
  (pc = "done" /\ OnlyHooks /\ op # "fold_crate") =>
    LET leaves == Leaves(input[1], "root", <<>>)
    IN  /\ \A t \in leaves :
              /\ IsNodeId(t) => Calls("new_id", t[3]) = Fields(input[1], IdKeys, t[3])
              /\ t[2] \in SpanKeys =>
                    Calls("new_span", t[3]) = Fields(input[1], SpanKeys, t[3])
        /\ fld.span_mode = "mark" =>
              \A t \in Leaves(out[1], "root", <<>>) : t[2] \in SpanKeys => t[3] >= SpanMark
        /\ fld.id_mode = "fresh" =>
              \A t \in Leaves(out[1], "root", <<>>) : IsNodeId(t) => t[3] >= FirstId

\* The id fields of the tree x, and the ids they hold.
IdFields(x) == {t \in Leaves(x, "root", <<>>) : IsNodeId(t)}

\* C14 (ids are unique after a pass): when new_id returns a fresh id at every
\* call, no two nodes of the crate that fold_crate returns have the same id,
\* also when fold_item turns one item declaration into several.
C14_UniqueIds ==
  (Done("fold_crate") /\ fld.id_mode = "fresh") =>
    \A s, t \in IdFields(out[1]) : s[3] = t[3] => s = t

\* The messages of the fatal failures.
MacMessage == "fold_mac disabled by default"

CrateMessages == {MoreThanOne, NotAModule}

\* The folder overrides an operation that returns a sequence of nodes.
CustomArity ==
  \/ fld.item_mode # "dflt" \/ fld.stmt_mode # "dflt"
  \/ fld.impl_item_mode # "dflt" \/ fld.trait_item_mode # "dflt"

\* A fragment of one of the four singular kinds was folded in the pass.
SingularFolded ==
  \/ op = "noop_fold_interpolated" /\ input[1].k \in SingularKinds
  \/ \E i \in DOMAIN fld.log :
        fld.log[i].op = "fold_interpolated" /\ fld.log[i].arg.k \in SingularKinds

\* C16 as stated (two classes of fatal failure): a pass that fails, fails
\* with an arity violation of a singular fragment or in the disabled fold_mac.
C16_TwoClasses == pc = "failed" => fld.failed \in ExpectedOne \cup {MacMessage}

\* C16 as amended: a pass that fails, fails in the disabled fold_mac, called
\* last, or with an arity violation after a singular fragment was folded by
\* a custom folder, or in noop_fold_crate because the custom fold_item has
\* returned several items or an item that is not a module.
C16_FailureClasses ==
  pc = "failed" =>
    \/ /\ fld.failed = MacMessage /\ fld.mac_mode = "dflt"
       /\ fld.log[Len(fld.log)].op = "fold_mac"
    \/ fld.failed \in ExpectedOne /\ CustomArity /\ SingularFolded
    \/ /\ fld.failed \in CrateMessages /\ op = "fold_crate"
       /\ fld.item_mode \in {"two", "nonmod", "expand"}

\* A crate whose module item the folder has turned into two.
C16_Witness ==
  /\ pc = "failed" /\ op = "fold_crate" /\ fld.item_mode = "two"
  /\ fld.failed = MoreThanOne
  /\ Calls("fold_item", Wrapped(input[1])) = 1

\* The fields of the tree x: where they are, without what they hold.
Shape(x) == {<<t[1], t[2]>> : t \in Leaves(x, "root", <<>>)}

\* The operations on the nodes that have a span of their own.
NodeOps ==
  {"fold_item", "fold_item_simple", "fold_foreign_item", "fold_impl_item",
   "fold_trait_item", "fold_stmt", "fold_decl", "fold_local", "fold_block", "fold_expr",
   "fold_pat", "fold_ty", "fold_attribute", "fold_meta_item", "fold_mac", "fold_tt",
   "fold_struct_field", "fold_variant", "fold_lifetime"}

\* The folder overrides fold_ident, new_id and new_span at most, and has
\* fold_mac call noop_fold_mac.
Traversing == fld.mac_mode = "noop" /\ ~ CustomArity /\ fld.opt_expr_mode = "dflt"

\* C17 (totality): with such a folder fold_crate completes on every crate,
\* is called with no node twice, and returns a crate of the shape of its
\* input: every sequence in it has the length it has in the input, the
\* singular fragments in macro invocations included.
C17_Total ==
  (op = "fold_crate" /\ pc # "ready" /\ Traversing) =>
    /\ pc = "done"
    /\ \A i, j \in DOMAIN fld.log :
          (fld.log[i].op \in NodeOps /\ fld.log[i] = fld.log[j]) => i = j
    /\ Shape(out[1]) = Shape(input[1])

\* The renaming folder on the crate whose macro invocation holds the four
\* singular fragments: each is folded, none fails.
C17_Witness ==
  /\ Done("fold_crate") /\ Traversing /\ fld.ident_mode = "const"
  /\ input = <<Crate(<<ItFragments>>, <<>>)>>
  /\ \A k \in SingularKinds :
        \E i \in DOMAIN fld.log : fld.log[i].op = "fold_interpolated" /\ fld.log[i].arg.k = k
  /\ out[1].module.items[1].node.m.node.tts[1].tok.nt.item.ident = K

\* The free function that the default of the method `name` is to call.
NoopOf(name, x, g) ==
  CASE name = "fold_crate" -> noop_fold_crate(x, g)
    [] name = "fold_item"  -> noop_fold_item(x, g)
    [] name = "fold_expr"  -> noop_fold_expr(x, g)
    [] name = "fold_tt"    -> noop_fold_tt(x, g)

\* The pass is a call of a method that the folder does not override, or
\* overrides only to call the free function.
Delegates ==
  \/ op \in {"fold_crate", "fold_expr", "fold_tt"}
  \/ op = "fold_item" /\ fld.item_mode = "dflt"
  \/ op = "fold_item" /\ fld.item_mode = "expand" /\ input[1].ident \notin {Deleted, Doubled}

Respanned(sp) == IF fld.span_mode = "mark" THEN sp + SpanMark ELSE sp

\* The names and the literals of the meta items of the tree x.
MetaNames(x) ==
  {t \in Leaves(x, "root", <<>>) :
     \/ t[2] = "mi_name"
     \/ \E k \in {"value", "mis", "meta_item", "config"} : In3(t, "lit", "node", k)}

\* C20 (the names of attributes and meta items are not renamed): the fold of
\* a meta item makes no call of fold_ident; it passes the nested meta items of
\* a list to fold_meta_item in order and every span to new_span, and returns
\* a meta item with the variant, the name and the literal of the input.  The
\* fold of an attribute keeps its id and its style and folds its meta item so;
\* the renaming folder leaves #[a] as it is.
C20_MetaNames ==
  /\ (op = "noop_fold_interpolated" /\ pc # "ready" /\ input[1].k = "NtMeta") =>
       LET mi == input[1].meta_item
           Re(m) == [m EXCEPT !.span = Respanned(@)]
       IN  /\ pc = "done"
           /\ \A i \in DOMAIN fld.log : fld.log[i].op \in {"fold_meta_item", "new_span"}
           /\ SelectSeq(fld.log, LAMBDA e : e.op = "fold_meta_item") =
                [i \in 1..(1 + Len(mi.node.mis)) |->
                   [op |-> "fold_meta_item", arg |-> IF i = 1 THEN mi ELSE mi.node.mis[i - 1]]]
           /\ out[1].meta_item =
                Re([mi EXCEPT !.node.mis = [i \in DOMAIN mi.node.mis |-> Re(mi.node.mis[i])]])
  /\ (Done("fold_item") /\ input[1].attrs # <<>> /\ fld.item_mode = "dflt") =>
       /\ Len(out[1]) = 1
       /\ out[1][1].attrs =
            [i \in DOMAIN input[1].attrs |->
               [node |-> [input[1].attrs[i].node EXCEPT !.value.span = Respanned(@)],
                span |-> Respanned(input[1].attrs[i].span)]]
       /\ \A i \in DOMAIN input[1].attrs :
            /\ Calls("fold_attribute", input[1].attrs[i]) = 1
            /\ Calls("fold_meta_item", input[1].attrs[i].node.value) = 1
            /\ Calls("fold_ident", input[1].attrs[i].node.value.node.mi_name) = 0
  /\ (pc = "done" /\ Traversing) =>
       MetaNames(IF op \in {"fold_item", "noop_fold_stmt"} THEN out[1][1] ELSE out[1]) =
         MetaNames(input[1])

\* The renaming folder on #[a] mod b { ... } : the item is renamed, the
\* attribute is not.
C20_Witness ==
  /\ Done("fold_item") /\ fld.ident_mode = "const" /\ input = <<ItTestMod>>
  /\ out[1][1].ident = K
  /\ out[1][1].attrs[1].node.value.node = [k |-> "Word", mi_name |-> "a"]

\* The pass p run alone, as far as it has come.
Alone(p) == MoveFlatMap(fold_item, SubSeq(par[p].tree, 1, par[p].at), par[p].folder)

AfterHooks(s) == new_id(s.node.id, new_span(s.span, Before(fld)).f).f

\* C21 (the number of statements): noop_fold_stmt returns, for an expression
\* statement with or without semicolon, no statement when fold_opt_expr
\* returns nothing and otherwise one statement of the same variant with the
\* folded expression; for a macro statement one statement with the style of
\* its semicolon; for a declaration one statement for each declaration that
\* fold_decl returns, in order.
C21_StmtArity ==
  Done("noop_fold_stmt") =>
    LET s == input[1]
        k == s.node.k
    IN  CASE k \in {"Expr", "Semi"} ->
               LET r == fold_opt_expr(s.node.e, AfterHooks(s))
               IN  /\ Calls("fold_opt_expr", s.node.e) = 1
                   /\ Len(out[1]) = (IF r.v = <<>> THEN 0 ELSE 1)
                   /\ \A i \in DOMAIN out[1] :
                        out[1][i].node.k = k /\ out[1][i].node.e = r.v[1]
          [] k = "Mac" ->
               /\ Len(out[1]) = 1
               /\ out[1][1].node.k = "Mac" /\ out[1][1].node.semi = s.node.semi
               /\ Calls("fold_mac", s.node.mac) = 1
          [] k = "Decl" ->
               LET r == fold_decl(s.node.d, AfterHooks(s))
               IN  /\ Calls("fold_decl", s.node.d) = 1
                   /\ Len(out[1]) = Len(r.v)
                   /\ \A i \in DOMAIN out[1] :
                        out[1][i].node.k = "Decl" /\ out[1][i].node.d = r.v[i]

\* A folder that deletes the literal n0, on the statement `n0;`: no statement
\* is returned, after one call of fold_opt_expr.
C21_Witness ==
  /\ Done("noop_fold_stmt") /\ fld.opt_expr_mode = "strip"
  /\ input = <<StSemi(ExLit(Deleted, 905), 906)>>
  /\ Calls("fold_opt_expr", input[1].node.e) = 1
  /\ out = <<<<>>>>

\* C22 (the trailing expression of a block): noop_fold_block returns a block
\* that has a trailing expression when the input has one and fold_opt_expr
\* returns a result for it, and only then; fold_opt_expr is called once when
\* the input has a trailing expression and not at all when it has none; the
\* rules of the block are the input's, and the statements are those of the
\* fold of the block without its trailing expression.
C22_TrailingExpr ==
  (op = "noop_fold_block" /\ pc # "ready") =>
    LET b  == input[1]
        r2 == MoveFlatMap(fold_stmt, b.stmts, new_id(b.id, Before(fld)).f)
        r3 == IF b.expr = <<>> THEN [v |-> <<>>, f |-> r2.f]
              ELSE fold_opt_expr(b.expr[1], r2.f)
    IN  /\ pc = "done"
        /\ (out[1].expr # <<>>) <=> (b.expr # <<>> /\ r3.v # <<>>)
        /\ out[1].expr = r3.v
        /\ Cardinality(CallsOf("fold_opt_expr")) =
             Len(b.expr)
        /\ \A i \in DOMAIN b.expr : Calls("fold_opt_expr", b.expr[i]) = 1
        /\ out[1].rules = b.rules
        /\ out[1].stmts = r2.v
        /\ out[1].stmts = noop_fold_block([b EXCEPT !.expr = <<>>], Before(fld)).v.stmts

\* A folder that deletes the literal n0, on a block of two items that ends
\* in n0: the block returned has the two items and no trailing expression.
C22_Witness ==
  /\ Done("noop_fold_block") /\ fld.opt_expr_mode = "strip"
  /\ Len(input[1].stmts) = 2 /\ input[1].expr = <<ExLit(Deleted, 7)>>
  /\ Len(out[1].stmts) = 2 /\ out[1].expr = <<>>

\* The expression list of an array, a tuple, a call or a method call.
ExprList(e) == IF e.node.k \in {"Vec", "Tup"} THEN e.node.exprs ELSE e.node.args

\* The folder of the pass returns nothing from fold_opt_expr for e.
Stripped(e) == fld.opt_expr_mode = "strip" /\ e.node.k = "Lit" /\ e.node.lit = Deleted

\* C23 (expression lists may shrink): noop_fold_exprs passes every element
\* of the list to fold_opt_expr once and returns the folded expressions for
\* which a result was returned, in the order of the input, none twice: as
\* many as the input has with the default fold_opt_expr, fewer when a custom
\* fold_opt_expr returns nothing for an element.
C23_ExprLists ==
  (op = "fold_expr" /\ pc # "ready" /\
   input[1].node.k \in {"Vec", "Tup", "Call", "MethodCall"}) =>
    LET es   == ExprList(input[1])
        kept == SelectSeq(es, LAMBDA e : ~ Stripped(e))
        res  == ExprList(out[1])
    IN  /\ pc = "done"
        /\ Calls("fold_exprs", es) = 1
        /\ \A i \in DOMAIN es : Calls("fold_opt_expr", es[i]) = 1
        /\ Cardinality(CallsOf("fold_opt_expr")) = Len(es)
        /\ Len(res) = Len(kept)
        /\ \A i \in DOMAIN res :
             /\ res[i].span = Respanned(kept[i].span)
             /\ res[i].node.k = kept[i].node.k
             /\ Calls("fold_expr", kept[i]) = 1
        /\ fld.opt_expr_mode = "dflt" => Len(res) = Len(es)
        /\ (\E i \in DOMAIN es : Stripped(es[i])) => Len(res) < Len(es)

\* A folder that deletes the literal n0, on the call fun(a, n0, b): the call
\* returned is fun(a, b).
C23_Witness ==
  /\ Done("fold_expr") /\ fld.opt_expr_mode = "strip" /\ input[1].node.k = "Call"
  /\ Len(input[1].node.args) = 3 /\ Len(out[1].node.args) = 2
  /\ out[1].node.args[1].span = 436 /\ out[1].node.args[2].span = 438

\* What fold_ident returns for the name n with the folder of the pass.
Renamed(n) == IF fld.ident_mode = "const" THEN K ELSE n

\* The number of calls of fold_ident with the name n in the log of g.
IdentCalls(g, n) ==
  Cardinality({j \in DOMAIN g.log : g.log[j].op = "fold_ident" /\ g.log[j].arg = n})

\* C24 (the name of an item): noop_fold_item_simple passes the name of an
\* item that is not an impl to fold_ident once and returns the result as the
\* name; for an item whose folded kind is an impl it passes, instead of the
\* name of the input, the name computed from the folded trait reference and
\* the folded self type.
C24_ItemName ==
  (Done("fold_item") /\ fld.item_mode = "dflt") =>
    LET i      == input[1]
        kind   == fold_item_kind(i.node, new_id(i.id,
                                   Call("fold_item_simple", i,
                                        Call("fold_item", i, Before(fld)))).f)
        o      == out[1][1]
        pretty == impl_pretty_name(o.node.ifce, o.node.ty)
        name   == IF o.node.k = "Impl" THEN pretty ELSE i.ident
    IN  /\ Len(out[1]) = 1
        /\ o.node = kind.v
        /\ o.ident = Renamed(name)
        /\ IdentCalls(fld, name) = IdentCalls(kind.f, name) + 1
        /\ (o.node.k = "Impl" /\ i.ident # pretty) =>
             IdentCalls(fld, i.ident) = IdentCalls(kind.f, i.ident)

\* The renaming folder on `impl tr for u { .. }`, named tr.u: fold_ident is
\* called with the name of the renamed trait and type, and not with tr.u.
C24_Witness ==
  /\ Done("fold_item") /\ fld.ident_mode = "const" /\ fld.item_mode = "dflt"
  /\ input[1].node.k = "Impl" /\ input[1].ident = "tr.u"
  /\ Calls("fold_ident", "tr.u") = 0
  /\ Calls("fold_ident", K \o "." \o K) = 1
  /\ out[1][1].ident = K

\* C25 (the deleted root): when fold_item returns no item for the module item
\* of a crate, noop_fold_crate does not panic.  The crate returned has no
\* items and no attributes; its span and the inner span of its module are the
\* span of the input, which is not passed to new_span.  The configuration is
\* folded before the module item and the id of every exported macro is passed
\* to new_id after it, as when one item is returned.
C25_DeletedRoot ==
  (op = "fold_crate" /\ pc # "ready") =>
    LET c  == input[1]
        r1 == fold_meta_items(c.config, Call("fold_crate", c, Before(fld)))
        r2 == fold_item(Wrapped(c), r1.f)
        r3 == MoveMap(fold_exported_macro, c.exported_macros, r2.f)
    IN  (r2.f.failed = "" /\ r2.v = <<>>) =>
          /\ pc = "done"
          /\ out[1].module = [inner |-> c.span, items |-> <<>>]
          /\ out[1].attrs = <<>>
          /\ out[1].span = c.span
          /\ Since(r1.f, fld) =
               <<[op |-> "fold_item", arg |-> Wrapped(c)]>> \o
               [i \in 1..Len(c.exported_macros) |->
                  [op |-> "new_id", arg |-> c.exported_macros[i].id]]
          /\ out[1].config = r1.v
          /\ out[1].exported_macros = r3.v
          /\ fld = r3.f

\* A crate with attributes, a configuration and two exported macros, under a
\* folder that deletes every item, marks spans and numbers ids anew: the
\* crate returned has the span of the input, not a marked one, while the span
\* in its configuration is marked and its macros have new ids.
C25_Witness ==
  /\ Done("fold_crate")
  /\ fld.item_mode = "zero" /\ fld.span_mode = "mark" /\ fld.id_mode = "fresh"
  /\ input[1].attrs # <<>> /\ input[1].module.items # <<>>
  /\ Len(input[1].exported_macros) = 2
  /\ out[1].attrs = <<>> /\ out[1].module.items = <<>>
  /\ out[1].span = input[1].span /\ out[1].module.inner = input[1].span
  /\ out[1].span # Respanned(input[1].span)
  /\ out[1].config[1].span = Respanned(input[1].config[1].span)
  /\ out[1].exported_macros[1].id # input[1].exported_macros[1].id
  /\ out[1].exported_macros[2].id # out[1].exported_macros[1].id

\* C26 (the frame of a crate): noop_fold_crate folds the configuration with
\* fold_meta_items, then the module item, and then passes the id of every
\* exported macro, in order, to new_id: these are the last calls of the pass,
\* and every other field of an exported macro is returned as it was.  The
\* crate returned is made of the module, the attributes and the span of the
\* item returned, whatever its id, name and visibility are.
C26_CrateFrame ==
  Done("fold_crate") =>
    LET c   == input[1]
        g   == Call("fold_crate", c, Before(fld))
        r1  == fold_meta_items(c.config, g)
        r2  == fold_item(Wrapped(c), r1.f)
        ems == c.exported_macros
    IN  /\ Since(g, r1.f)[1] = [op |-> "fold_meta_items", arg |-> c.config]
        /\ SubSeq(fld.log, 1, Len(r1.f.log)) = r1.f.log
        /\ fld.log[Len(r1.f.log) + 1] = [op |-> "fold_item", arg |-> Wrapped(c)]
        /\ SubSeq(fld.log, 1, Len(r2.f.log)) = r2.f.log
        /\ Since(r2.f, fld) = [i \in 1..Len(ems) |-> [op |-> "new_id", arg |-> ems[i].id]]
        /\ Len(out[1].exported_macros) = Len(ems)
        /\ \A i \in 1..Len(ems) :
             /\ [out[1].exported_macros[i] EXCEPT !.id = ems[i].id] = ems[i]
             /\ fld.id_mode = "keep" => out[1].exported_macros[i] = ems[i]
        /\ out[1].config = r1.v
        /\ r2.v # <<>> =>
             /\ out[1].module = r2.v[1].node.m
             /\ out[1].attrs = r2.v[1].attrs
             /\ out[1].span = r2.v[1].span

\* A crate with two exported macros under the folder that marks spans and
\* numbers ids anew: the module item comes back with another id, and the
\* macros with new ids, the later the greater, and the spans and bodies they
\* had.
C26_Witness ==
  /\ Done("fold_crate")
  /\ fld.id_mode = "fresh" /\ fld.span_mode = "mark" /\ fld.item_mode = "dflt"
  /\ Len(input[1].exported_macros) = 2
  /\ input[1].exported_macros[1].body_tts # <<>>
  /\ WrappedResult(input[1]).v[1].id # DUMMY_NODE_ID
  /\ out[1].exported_macros[1].id # input[1].exported_macros[1].id
  /\ out[1].exported_macros[1].id < out[1].exported_macros[2].id
  /\ out[1].exported_macros[1].body_tts = input[1].exported_macros[1].body_tts
  /\ out[1].exported_macros[1].span = input[1].exported_macros[1].span
  /\ out[1].span = Respanned(input[1].span)

\* The operations that fold an Item, Expr, Pat, Ty, Block, Local, Arg,
\* StructField, TraitItem, ImplItem or ForeignItem.
IdFirstOps ==
  {"fold_item_simple", "fold_expr", "fold_pat", "fold_ty", "fold_block", "fold_local",
   "fold_arg", "fold_struct_field", "fold_trait_item", "fold_impl_item",
   "fold_foreign_item"}

\* Those that fold an Item, Pat, Ty or Block.
SpanLastOps == {"fold_item", "fold_item_simple", "fold_pat", "fold_ty", "fold_block"}

\* The id of the node that the call c of one of these operations folds.
NodeIdOf(c) == IF c.op = "fold_struct_field" THEN c.arg.node.id ELSE c.arg.id

\* The id field t is that of the data of a struct or of a variant, which is
\* none of these nodes: noop_fold_variant_data folds the fields first.
IsVariantDataId(t) == In2(t, "id", "struct_def") \/ In2(t, "id", "data")

\* The path of the node that holds the id field t.
Owner(t) ==
  LET p == SubSeq(t[1], 1, Len(t[1]) - 1)
  IN  IF p # <<>> /\ p[Len(p)] = Key("node") THEN SubSeq(p, 1, Len(p) - 1) ELSE p

\* The field t is inside the node that holds the id field s.
Nested(s, t) ==
  LET p == Owner(s)
  IN  s # t /\ Len(p) < Len(t[1]) /\ SubSeq(t[1], 1, Len(p)) = p

\* The folder as it was before the j-th call of the pass.
Upto(j) == [fld EXCEPT !.log = SubSeq(fld.log, 1, j - 1)]

\* C27 (ids are given in pre-order): when no operation but fold_ident,
\* fold_mac, fold_opt_expr, new_id and new_span is overridden, the call that
\* follows the call of the operation on an Item, Expr, Pat, Ty, Block, Local,
\* Arg, StructField, TraitItem, ImplItem or ForeignItem is new_id with the id
\* of that node, so that, when new_id returns increasing numbers, the id of
\* such a node in the result (of any node, in fact, but the data of a struct
\* or a variant) is smaller than every id inside it; and the last call of the fold of an Item, Pat, Ty or Block is
\* new_span with the span of that node.
C27_PreOrder ==
  (pc # "ready" /\ ~ CustomArity) =>
    /\ \A j \in DOMAIN fld.log :
         /\ fld.log[j].op = "fold_item" =>
              /\ j < Len(fld.log)
              /\ fld.log[j + 1] = [op |-> "fold_item_simple", arg |-> fld.log[j].arg]
         /\ fld.log[j].op \in IdFirstOps =>
              /\ j < Len(fld.log)
              /\ fld.log[j + 1] = [op |-> "new_id", arg |-> NodeIdOf(fld.log[j])]
    /\ (pc = "done" /\ fld.id_mode = "fresh") =>
         \A s, t \in IdFields(out[1]) :
            (Nested(s, t) /\ ~ IsVariantDataId(s)) => s[3] < t[3]
    /\ pc = "done" =>
         \A j \in DOMAIN fld.log :
            fld.log[j].op \in SpanLastOps =>
              LET h == Invoke(fld.log[j].op, fld.log[j].arg, Upto(j)).f.log
              IN  /\ h = SubSeq(fld.log, 1, Len(h))
                  /\ h[Len(h)] = [op |-> "new_span", arg |-> fld.log[j].arg.span]

\* `fn n1(s { fp: x }: t) { 'lb: loop { s { fe: "n1" } } }` under the folder
\* that numbers the ids anew: the item has the first id, its argument a
\* greater one, the pattern and the type of the argument greater ones again,
\* and the last call of the pass is new_span with the span of the item.
C27_Witness ==
  /\ Done("fold_item") /\ fld.id_mode = "fresh" /\ ~ CustomArity
  /\ input[1] = ItStructFn
  /\ out[1][1].id = FirstId
  /\ out[1][1].id < out[1][1].node.decl.inputs[1].id
  /\ out[1][1].node.decl.inputs[1].id < out[1][1].node.decl.inputs[1].pat.id
  /\ out[1][1].node.decl.inputs[1].pat.id < out[1][1].node.decl.inputs[1].ty.id
  /\ out[1][1].node.body.id < out[1][1].node.body.expr[1].id
  /\ fld.log[Len(fld.log)] = [op |-> "new_span", arg |-> input[1].span]

====
